---------------------------- MODULE Spec2Model ----------------------------
(***************************************************************************)
(* A model of sat_archiver: the scanner (scanner.py), its name recognizers *)
(* (config.py) and parsers (parsers.py), and the mover (mover.py).         *)
(*                                                                         *)
(* Strings are sequences of tokens.  A token is a maximal run of letters   *)
(* and digits of the real string, or one punctuation character; a date of  *)
(* eight digits is tokenised year, month, day, and a time of six digits    *)
(* hour, minute, second.  The empty string is << >>.  The regular          *)
(* expressions of config.py are matched token by token by a backtracking   *)
(* matcher with Python's greedy/lazy preference order.                     *)
(***************************************************************************)
EXTENDS Integers, Sequences, FiniteSets, TLC

VARIABLES
    fs,            \* the file system scan_folder reads
    source_dir,    \* the argument of scan_folder: a path
    pc,            \* Spec: "ready" before the call of scan_folder, "done" or
                   \* "raised" after it; SpecAcc: "staging", then "done" or "raised"
    items,         \* the list returned: by scan_folder, in SpecAcc by a section
    section,       \* SpecAcc: the section whose accumulator is followed
    story_groups,  \* SpecAcc: the accumulator, its groups in insertion order
    pending,       \* SpecAcc: the calls of _add_to_story_group the walk has yet to make;
                   \* SpecMove: the items the loop of move_items has yet to handle
    calls,         \* SpecAcc: the calls of _add_to_story_group made so far
    arg,           \* SpecContext, SpecNames: the argument of the function called;
                   \* SpecMove: the list given to move_items
    ret,           \* SpecContext, SpecNames: what the call returned;
                   \* SpecMove: the counters success and errors of move_items
    disk,          \* SpecMove: the file system move_items writes
    moved          \* SpecMove: for each item the loop has handled, whether it
                   \* was counted as a success

vars == <<fs, source_dir, pc, items, section, story_groups, pending, calls,
         arg, ret, disk, moved>>

---------------------------------------------------------------------------
(* Small helpers on integers and sequences.                                *)

Min2(a, b) == IF a <= b THEN a ELSE b

SetMax(S) == CHOOSE x \in S : \A y \in S : y <= x

SetMin(S) == CHOOSE x \in S : \A y \in S : x <= y

RECURSIVE SumTo(_, _)
SumTo(p, n) == IF n = 0 THEN 0 ELSE p[n] + SumTo(p, n - 1)

RECURSIVE Flatten(_)
Flatten(ss) == IF ss = << >> THEN << >> ELSE Head(ss) \o Flatten(Tail(ss))

Range(s) == {s[i] : i \in 1..Len(s)}

\* the element of a singleton set: Value({e : x \in {v}}) is e for x = v,
\* with v computed once
Value(S) == CHOOSE x \in S : TRUE

\* s.startswith(p)
StartsWith(s, p) == Len(s) >= Len(p) /\ SubSeq(s, 1, Len(p)) = p

\* p in s (substring test)
Contains(s, p) ==
    \E i \in 1..(Len(s) - Len(p) + 1) : SubSeq(s, i, i + Len(p) - 1) = p

---------------------------------------------------------------------------
(* The token alphabet of file and directory names, in code-point order of  *)
(* the real strings.  No token is a prefix of another (but Reshare of      *)
(* Reshares, whose final lower-case s sorts after whatever can follow the  *)
(* token Reshare), so comparing two names token by token gives the order   *)
(* of Python's str comparison.                                             *)

TokOrder ==
    << " ", "-", ".", "00", "01", "03", "09", "1", "2024", "3", "45", "@",
       "ABC", "Additional", "Advanced", "Alice", "Batch", "Bob", "Books",
       "Categories", "Checks", "Comment", "Daily", "Food", "IG", "MO", "MP4",
       "Manual", "P&V", "PAIRED", "POST", "PW", "Profile", "RTA", "Regular",
       "Reshare", "Reshares", "SAT", "Stories", "TO", "TXT", "Unlisted",
       "VE", "WPAS", "XYZ", "_", "abc", "alice", "bob", "collab", "jpg",
       "json", "media", "metadata", "mp4", "notes", "on", "png", "profile",
       "raw", "screencapture", "screenshot", "story", "txt", "xyz" >>

Tokens == Range(TokOrder)

TokRank(t) == CHOOSE i \in 1..Len(TokOrder) : TokOrder[i] = t

\* \d{2} and \d{4}: the digit tokens of two and of four characters
Digits2 == {"00", "01", "03", "09", "45"}

Digits4 == {"2024"}

\* characters outside \w: the punctuation tokens
Punct == {" ", "-", ".", "@"}

\* \w
WordTok == Tokens \ Punct

\* [\w.]
HandleTok == WordTok \cup {"."}

\* \s
SpaceTok == {" "}

\* str < str
RECURSIVE StrLess(_, _)
StrLess(a, b) ==
    IF b = << >> THEN FALSE
    ELSE IF a = << >> THEN TRUE
    ELSE IF Head(a) = Head(b) THEN StrLess(Tail(a), Tail(b))
    ELSE TokRank(Head(a)) < TokRank(Head(b))

---------------------------------------------------------------------------
(* The matcher.  A pattern is a sequence of items; an item matches lo..hi  *)
(* tokens of the class cls (hi = 0: no upper limit), greedily or lazily;   *)
(* grp is the capture group the item belongs to (0: none) and opt the      *)
(* optional non-capturing group (?: ... )? it belongs to (0: none).        *)

Lit(t) == [cls |-> {t}, lo |-> 1, hi |-> 1, greedy |-> TRUE, grp |-> 0, opt |-> 0]

LitSeq(ts) == [i \in 1..Len(ts) |-> Lit(ts[i])]

One(S, g) == [cls |-> S, lo |-> 1, hi |-> 1, greedy |-> TRUE, grp |-> g, opt |-> 0]

\* X+ and X+?
Plus(S, g) == [cls |-> S, lo |-> 1, hi |-> 0, greedy |-> TRUE, grp |-> g, opt |-> 0]

PlusLazy(S, g) == [cls |-> S, lo |-> 1, hi |-> 0, greedy |-> FALSE, grp |-> g, opt |-> 0]

\* X*?
StarLazy(S, g) == [cls |-> S, lo |-> 0, hi |-> 0, greedy |-> FALSE, grp |-> g, opt |-> 0]

\* the items of an optional group (?: ... )?
Optional(its, o) == [i \in 1..Len(its) |-> [its[i] EXCEPT !.opt = o]]

\* every way the items i.. of pat match s[pos..] up to the end of s, each
\* as the sequence of the items' lengths
RECURSIVE Parses(_, _, _, _)
Parses(pat, s, i, pos) ==
    IF i > Len(pat)
    THEN IF pos = Len(s) + 1 THEN {<< >>} ELSE {}
    ELSE LET it == pat[i]
             room == Len(s) - pos + 1
             top == IF it.hi = 0 THEN room ELSE Min2(it.hi, room)
             fits(k) == \A j \in pos..(pos + k - 1) : s[j] \in it.cls
             taken ==
                 UNION {{<<k>> \o r : r \in Parses(pat, s, i + 1, pos + k)} :
                        k \in {n \in it.lo..top : fits(n)}}
             first == it.opt # 0 /\ (i = 1 \/ pat[i - 1].opt # it.opt)
             last ==
                 CHOOSE j \in i..Len(pat) :
                     /\ \A m \in i..j : pat[m].opt = it.opt
                     /\ (j = Len(pat) \/ pat[j + 1].opt # it.opt)
             skipped ==
                 IF first
                 THEN {[j \in 1..(last - i + 1) |-> 0] \o r :
                       r \in Parses(pat, s, last + 1, pos)}
                 ELSE {}
         IN  taken \cup skipped

\* the parse a backtracking matcher finds first: item by item, the longest
\* length for a greedy item and the shortest for a lazy one
RECURSIVE Prefer(_, _, _)
Prefer(ps, pat, i) ==
    IF i > Len(pat) THEN ps
    ELSE LET ls == {p[i] : p \in ps}
             v == IF pat[i].greedy THEN SetMax(ls) ELSE SetMin(ls)
         IN  Prefer({p \in ps : p[i] = v}, pat, i + 1)

\* m.group(g)
GroupOf(pat, s, p, g) ==
    LET idx == {i \in 1..Len(pat) : pat[i].grp = g}
        a == SetMin(idx)
        b == SetMax(idx)
        start == 1 + SumTo(p, a - 1)
    IN  SubSeq(s, start, SumTo(p, b))

\* RE.match(s) for a pattern anchored with ^ and $: ok, and the n groups
Match(pat, n, s) ==
    Value({IF ps = {} THEN [ok |-> FALSE, g |-> << >>]
           ELSE [ok |-> TRUE,
                 g |-> Value({[k \in 1..n |-> GroupOf(pat, s, p, k)] :
                              p \in {CHOOSE q \in Prefer(ps, pat, 1) : TRUE}})] :
           ps \in {Parses(pat, s, 1, 1)}})

---------------------------------------------------------------------------
(* config.py: the recognizers.                                             *)

\* \s+-\s+PAIRED
PairedItems == <<Plus(SpaceTok, 0), Lit("-"), Plus(SpaceTok, 0), Lit("PAIRED")>>

\* (\d{8}) as group g
Date8(g) == <<One(Digits4, g), One(Digits2, g), One(Digits2, g)>>

\* (\d{4}-\d{2}-\d{2}) as group g
DateIso(g) ==
    <<One(Digits4, g), [Lit("-") EXCEPT !.grp = g], One(Digits2, g),
      [Lit("-") EXCEPT !.grp = g], One(Digits2, g)>>

SAT_CHECKS_RE ==
    LitSeq(<<"SAT", " ", "Checks", " ", "-", " ">>) \o <<PlusLazy(Tokens, 1)>>
    \o LitSeq(<<" ", "-", " ", "RTA">>)

STORY_FILE_RE ==
    <<Plus(Tokens, 1)>> \o LitSeq(<<"_", "story", "_">>) \o Date8(2)
    \o <<Lit("_"), One(Digits2, 3), One(Digits2, 3), One(Digits2, 3), Lit("_"),
         One(Digits2, 4), Lit("_"), Plus(Tokens, 5), Lit("_"),
         One({"raw", "screencapture", "screenshot"}, 6), Lit("."),
         One({"mp4", "jpg", "jpeg", "png"}, 7)>>

POST_FOLDER_RE ==
    <<PlusLazy(Tokens, 1)>> \o LitSeq(<<"_", "IG", "_", "POST", "_">>)
    \o Date8(2) \o <<Lit("_"), PlusLazy(Tokens, 3)>> \o Optional(PairedItems, 1)

PROFILE_FOLDER_RE ==
    LitSeq(<<"IG", " ", "Profile", " ", "-", " ">>) \o DateIso(1)
    \o LitSeq(<<" ", "-", " ">>) \o <<PlusLazy(Tokens, 2)>>
    \o LitSeq(<<" ", "-", " ", "@">>) \o <<Plus(HandleTok, 3)>>

\* \b.*? before a date: the character after the word is not a word character
BoundaryThenAny == <<One(Punct, 0), StarLazy(Tokens, 0)>>

COMMENT_FOLDER_RE ==
    LitSeq(<<"IG", " ", "Regular", " ", "Comment">>) \o BoundaryThenAny
    \o DateIso(1) \o <<StarLazy(Tokens, 0)>> \o LitSeq(<<"-", " ", "@">>)
    \o <<Plus(HandleTok, 2)>> \o Optional(PairedItems, 1)

NAMED_STORY_FOLDER_RE ==
    LitSeq(<<"IG", " ", "Stories", " ", "-", " ">>) \o DateIso(1)
    \o LitSeq(<<" ", "-", " ">>) \o <<PlusLazy(Tokens, 2)>>
    \o LitSeq(<<" ", "-", " ">>) \o <<Plus(HandleTok, 3)>>

STORIES_TXT_FOLDER_RE ==
    LitSeq(<<"IG", " ", "Stories", " ", "TXT">>) \o BoundaryThenAny
    \o DateIso(1) \o <<StarLazy(Tokens, 0)>> \o <<Lit("@"), Plus(HandleTok, 2)>>

RESHARE_FOLDER_RE ==
    LitSeq(<<"IG", " ", "Reshare", " ", "-", " ">>) \o DateIso(1)
    \o LitSeq(<<" ", "-", " ">>) \o <<PlusLazy(Tokens, 2)>>
    \o LitSeq(<<" ", "-", " ">>) \o <<Plus(HandleTok, 3)>>

\* \d
DigitTok == Digits2 \cup Digits4 \cup {"1", "3"}

\* re.IGNORECASE: of the literals of the pattern, only MP4 has another case
\* in the alphabet
VE_FILE_RE ==
    LitSeq(<<"IG", " ", "VE", " ", "-", " ">>) \o <<PlusLazy(Tokens, 1)>>
    \o LitSeq(<<" ", "-", " ">>) \o <<PlusLazy(Tokens, 2)>>
    \o LitSeq(<<" ", "-", " ">>) \o <<PlusLazy(HandleTok, 3)>>
    \o Optional(<<Plus(SpaceTok, 0), Lit("-"), Plus(SpaceTok, 0), Plus(DigitTok, 0)>>, 1)
    \o <<Lit("."), One({"MP4", "mp4"}, 0)>>

PROFILE_FILE_RE ==
    <<Plus(HandleTok, 1)>> \o LitSeq(<<"_", "profile", "_">>) \o Date8(2)
    \o <<Lit("."), One({"png", "jpg"}, 3)>>

WPAS_RE == <<Lit("WPAS"), Plus(SpaceTok, 0), Plus(Tokens, 1)>>

\* Path.home() / "Downloads" / "Instagram Archive"
ARCHIVE_ROOT == <<<<"~">>, <<"Downloads">>, <<"Instagram", " ", "Archive">>>>

STORY_CATEGORY_TO_COLUMN ==
    [n \in {<<"Books">>, <<"Conditions">>, <<"Emotional", " ", "Support">>,
            <<"Fear">>, <<"Food">>, <<"Healing", " ", "Stories">>,
            <<"Healing", " ", "Tools">>,
            <<"Healing", " ", "Tools", " ", "More">>, <<"History">>,
            <<"Miscellaneous">>, <<"MM", " ", "Science">>, <<"Other">>,
            <<"PW", " ", "Trends">>, <<"Resources">>, <<"Supporting">>} |->
        CASE n = <<"Books">> -> "books"
          [] n = <<"Conditions">> -> "conditions"
          [] n = <<"Emotional", " ", "Support">> -> "emotional_support"
          [] n = <<"Fear">> -> "fear"
          [] n = <<"Food">> -> "food"
          [] n = <<"Healing", " ", "Stories">> -> "healing_stories"
          [] n = <<"Healing", " ", "Tools">> -> "healing_tools"
          [] n = <<"Healing", " ", "Tools", " ", "More">> -> "healing_tools_more"
          [] n = <<"History">> -> "history"
          [] n = <<"Miscellaneous">> -> "miscellaneous"
          [] n = <<"MM", " ", "Science">> -> "mm_science"
          [] n = <<"Other">> -> "other"
          [] n = <<"PW", " ", "Trends">> -> "pw_trends"
          [] n = <<"Resources">> -> "resources"
          [] n = <<"Supporting">> -> "supporting"]

MO_PATH_TO_COLUMN ==
    [n \in {<<"PW">>, <<"RPT">>, <<"SI">>, <<"TS">>, <<"WTS">>} |->
        CASE n = <<"PW">> -> "mo_pw"
          [] n = <<"RPT">> -> "mo_rpt"
          [] n = <<"SI">> -> "mo_si"
          [] n = <<"TS">> -> "mo_ts"
          [] n = <<"WTS">> -> "mo_wts"]

---------------------------------------------------------------------------
(* parsers.py.  A parser that returns None returns [ok |-> FALSE] here.    *)

\* s.rsplit(" ", 1) when " " in s: the index of the last space
LastSpace(s) == SetMax({i \in 1..Len(s) : s[i] = " "})

extract_username_from_story_prefix(prefix) ==
    IF \E i \in 1..Len(prefix) : prefix[i] = " "
    THEN SubSeq(prefix, LastSpace(prefix) + 1, Len(prefix))
    ELSE prefix

parse_story_filename(filename) ==
    Value({IF ~m.ok THEN [ok |-> FALSE]
           ELSE LET prefix == m.g[1]
                    suffix == m.g[6]
                    ext == m.g[7]
                IN  [ok |-> TRUE,
                     username |-> extract_username_from_story_prefix(prefix),
                     full_name |->
                         IF \E i \in 1..Len(prefix) : prefix[i] = " "
                         THEN SubSeq(prefix, 1, LastSpace(prefix) - 1)
                         ELSE << >>,
                     shortcode |-> m.g[5],
                     date_str |-> m.g[2],
                     time_str |-> m.g[3],
                     seq |-> m.g[4],
                     suffix |-> suffix,
                     ext |-> ext,
                     raw_ext |-> IF suffix = <<"raw">> THEN ext ELSE << >>] :
           m \in {Match(STORY_FILE_RE, 7, filename)}})

parse_post_folder(folder_name) ==
    Value({IF ~m.ok THEN [ok |-> FALSE]
           ELSE [ok |-> TRUE, username |-> m.g[1], date_str |-> m.g[2], shortcode |-> m.g[3]] :
           m \in {Match(POST_FOLDER_RE, 3, folder_name)}})

parse_profile_folder(folder_name) ==
    Value({IF ~m.ok THEN [ok |-> FALSE]
           ELSE [ok |-> TRUE, date_str |-> m.g[1], full_name |-> m.g[2], handle |-> m.g[3]] :
           m \in {Match(PROFILE_FOLDER_RE, 3, folder_name)}})

parse_comment_folder(folder_name) ==
    Value({IF ~m.ok THEN [ok |-> FALSE]
           ELSE [ok |-> TRUE, date_str |-> m.g[1], handle |-> m.g[2]] :
           m \in {Match(COMMENT_FOLDER_RE, 2, folder_name)}})

parse_named_story_folder(folder_name) ==
    Value({IF m.ok
           THEN [ok |-> TRUE, date_str |-> m.g[1], full_name |-> m.g[2], handle |-> m.g[3]]
           ELSE IF t.ok
           THEN [ok |-> TRUE, date_str |-> t.g[1], full_name |-> << >>, handle |-> t.g[2]]
           ELSE [ok |-> FALSE] :
           m \in {Match(NAMED_STORY_FOLDER_RE, 3, folder_name)},
           t \in {Match(STORIES_TXT_FOLDER_RE, 2, folder_name)}})

parse_reshare_folder(folder_name) ==
    Value({IF ~m.ok THEN [ok |-> FALSE]
           ELSE [ok |-> TRUE, date_str |-> m.g[1], full_name |-> m.g[2], handle |-> m.g[3]] :
           m \in {Match(RESHARE_FOLDER_RE, 3, folder_name)}})

parse_ve_file(filename) ==
    Value({IF ~m.ok THEN [ok |-> FALSE]
           ELSE [ok |-> TRUE, date_str |-> m.g[1], full_name |-> m.g[2], handle |-> m.g[3]] :
           m \in {Match(VE_FILE_RE, 3, filename)}})

parse_profile_file(filename) ==
    Value({IF ~m.ok THEN [ok |-> FALSE]
           ELSE [ok |-> TRUE, username |-> m.g[1], date_str |-> m.g[2]] :
           m \in {Match(PROFILE_FILE_RE, 3, filename)}})

\* hashlib.sha256(folder_name).hexdigest()[:8], taken to be free of collisions
Sha8(folder_name) == <<"sha256(">> \o folder_name \o <<")">>

generate_pseudo_shortcode(handle, date_str, folder_name) ==
    <<"NOID", "_">> \o handle \o <<"_">> \o date_str \o <<"_">> \o Sha8(folder_name)

\* a string of 8 digits is tokenised year, month, day
format_date(date_str) ==
    IF /\ Len(date_str) = 3
       /\ date_str[1] \in Digits4
       /\ date_str[2] \in Digits2
       /\ date_str[3] \in Digits2
    THEN <<date_str[1], "-", date_str[2], "-", date_str[3]>>
    ELSE date_str

\* datetime.now(): the day of the run
today_str == <<"2024", "-", "03", "-", "09">>

\* d.get(k, "") of a dict of strings
Get(d, k) == IF k \in DOMAIN d THEN d[k] ELSE << >>

\* a context parser that reads the third directory name as it stands: no
\* WPAS code is taken out of it
ContextWithoutWpasCode(rel_parts) ==
    [k \in {"batch", "dropdown_column", "dropdown_value", "wpas_code"} |->
        CASE k = "batch" -> IF Len(rel_parts) > 0 THEN rel_parts[1] ELSE << >>
          [] k = "dropdown_column" ->
                 IF Len(rel_parts) > 1 /\ rel_parts[2] \in DOMAIN STORY_CATEGORY_TO_COLUMN
                 THEN <<STORY_CATEGORY_TO_COLUMN[rel_parts[2]]>>
                 ELSE << >>
          [] k = "dropdown_value" -> IF Len(rel_parts) > 2 THEN rel_parts[3] ELSE << >>
          [] k = "wpas_code" -> << >>]

\* the sub.startswith(...) or STORY_FILE_RE.match(sub) test
\* a context parser for which no name is a content folder
NeverContentFolder(sub) == FALSE

is_content_folder(sub) ==
    \/ StartsWith(sub, <<"IG", " ", "Stories">>)
    \/ StartsWith(sub, <<"IG", " ", "Reshare">>)
    \/ StartsWith(sub, <<"IG", " ", "Profile">>)
    \/ StartsWith(sub, <<"IG", " ", "Regular", " ", "Comment">>)
    \/ Match(STORY_FILE_RE, 7, sub).ok

parse_sat_daily_stories_context(rel_parts) ==
    LET n == Len(rel_parts)
        batch == IF n > 0 THEN rel_parts[1] ELSE << >>
        col == IF n > 1 /\ rel_parts[2] \in DOMAIN STORY_CATEGORY_TO_COLUMN
               THEN <<STORY_CATEGORY_TO_COLUMN[rel_parts[2]]>>
               ELSE << >>
    IN  Value({LET wpas_code == IF n > 2 /\ wpas_match.ok THEN wpas_match.g[1] ELSE << >>
                   value2 == IF n > 2
                             THEN IF wpas_match.ok THEN wpas_match.g[1] ELSE rel_parts[3]
                             ELSE << >>
               IN  [k \in {"batch", "dropdown_column", "dropdown_value", "wpas_code"} |->
                       CASE k = "batch" -> batch
                         [] k = "dropdown_column" -> col
                         [] k = "dropdown_value" ->
                                IF n > 3 /\ ~is_content_folder(rel_parts[4])
                                THEN value2 \o <<" ", "/", " ">> \o rel_parts[4]
                                ELSE value2
                         [] k = "wpas_code" -> wpas_code] :
               wpas_match \in {IF n > 2 THEN Match(WPAS_RE, 1, rel_parts[3])
                               ELSE [ok |-> FALSE, g |-> << >>]}})

---------------------------------------------------------------------------
(* The file system.  A path is a sequence of names.  A file system f is a  *)
(* record: f.dirs and f.files are sets of paths, f.denied the directories  *)
(* whose listing raises PermissionError, f.json the content of the         *)
(* *_metadata.json files, and f.desc the order in which the operating      *)
(* system lists a directory (an unsorted iterdir() or rglob()): by name,   *)
(* ascending or descending.                                                *)

Parent(p) == SubSeq(p, 1, Len(p) - 1)

Name(p) == p[Len(p)]

\* a join that forgets the name
JoinKeepsParent(p, name) == p

\* p / name
Join(p, name) == IF name = << >> THEN p ELSE Append(p, name)

is_dir(f, p) == p \in f.dirs

is_file(f, p) == p \in f.files

\* name.startswith(".")
Hidden(name) == name # << >> /\ name[1] = "."

Children(f, d) ==
    {p \in f.dirs \cup f.files : Len(p) = Len(d) + 1 /\ Parent(p) = d}

\* sorted(paths) for paths of one directory
RECURSIVE SortPaths(_)
SortPaths(S) ==
    IF S = {} THEN << >>
    ELSE Value({<<m>> \o SortPaths(S \ {m}) :
                m \in {CHOOSE x \in S : \A y \in S \ {x} : StrLess(Name(x), Name(y))}})

Reverse(s) == [i \in 1..Len(s) |-> s[Len(s) + 1 - i]]

\* sorted(d.iterdir())
Sorted(f, d) == SortPaths(Children(f, d))

\* d.iterdir() as the operating system lists it
Listing(f, d) ==
    Value({IF f.desc THEN Reverse(sorted) ELSE sorted : sorted \in {Sorted(f, d)}})

\* folder.rglob("*"): directory by directory, each before its
\* subdirectories; a directory that cannot be listed contributes nothing
RECURSIVE RGlob(_, _)
RGlob(f, d) ==
    IF d \in f.denied THEN << >>
    ELSE Value({LET subs == SelectSeq(l, LAMBDA p : is_dir(f, p))
                IN  l \o Flatten([i \in 1..Len(subs) |-> RGlob(f, subs[i])]) :
                l \in {Listing(f, d)}})

\* str(path)
RECURSIVE StrOfPath(_)
StrOfPath(p) ==
    IF p = << >> THEN << >>
    ELSE IF Len(p) = 1 THEN p[1]
    ELSE p[1] \o <<"/">> \o StrOfPath(Tail(p))

\* p.relative_to(root) succeeds
IsUnder(p, root) == Len(p) >= Len(root) /\ SubSeq(p, 1, Len(root)) = root

\* p.relative_to(root).parts
RelParts(p, root) == SubSeq(p, Len(root) + 1, Len(p))

\* len(t) of a token
TokLen(t) ==
    CASE t \in {" ", "-", ".", "1", "3", "@", "_", "/", ",", ":", "T"} -> 1
      [] t \in {"00", "01", "03", "09", "45", "IG", "MO", "PW", "TO", "VE",
               "on"} -> 2
      [] t \in {"ABC", "Bob", "MP4", "P&V", "RTA", "SAT", "TXT", "XYZ",
               "abc", "bob", "jpg", "mp4", "png", "raw", "txt", "xyz"} -> 3
      [] t \in {"2024", "Food", "POST", "WPAS", "json"} -> 4
      [] t \in {"Alice", "Batch", "Books", "Daily", "alice", "media",
               "notes", "story"} -> 5
      [] t \in {"Checks", "Manual", "PAIRED", "collab"} -> 6
      [] t \in {"Comment", "Profile", "Regular", "Reshare", "Stories",
               "profile"} -> 7
      [] t \in {"Advanced", "Reshares", "Unlisted", "metadata"} -> 8
      [] t \in {"Additional", "Categories", "screenshot"} -> 10
      [] t \in {"screencapture"} -> 13

\* len(s)
RECURSIVE StrLen(_)
StrLen(s) == IF s = << >> THEN 0 ELSE TokLen(Head(s)) + StrLen(Tail(s))

\* s[:n], for a string with a token boundary at n or shorter than n
Slice(s, n) ==
    LET k == SetMax({i \in 0..Len(s) : StrLen(SubSeq(s, 1, i)) <= n})
    IN  SubSeq(s, 1, k)

\* ", ".join(list)
RECURSIVE JoinComma(_)
JoinComma(l) ==
    IF l = << >> THEN << >>
    ELSE IF Len(l) = 1 THEN l[1]
    ELSE l[1] \o <<",", " ">> \o JoinComma(Tail(l))

\* s.replace("_", ", ")
RECURSIVE ReplaceUnderscore(_)
ReplaceUnderscore(s) ==
    IF s = << >> THEN << >>
    ELSE (IF Head(s) = "_" THEN <<",", " ">> ELSE <<Head(s)>>)
         \o ReplaceUnderscore(Tail(s))

\* the keys of the companion metadata the scanner reads
MetaKeys == {"username", "full_name", "shortcode", "posted_at", "collaborators"}

\* parse_metadata_json: f.json[path].kind is "unreadable" (open() raises
\* OSError), "invalid" (json.load raises JSONDecodeError), "nonobject" (a
\* JSON value without .get: AttributeError, which is not caught) or
\* "object", with f.json[path].data the object's fields
parse_metadata_json(f, json_path) ==
    IF json_path \notin f.files \/ f.json[json_path].kind \in {"unreadable", "invalid"}
    THEN [exc |-> FALSE, d |-> << >>]
    ELSE IF f.json[json_path].kind = "nonobject"
    THEN [exc |-> TRUE, d |-> << >>]
    ELSE [exc |-> FALSE,
          d |-> [k \in MetaKeys |-> Get(f.json[json_path].data, k)]]

\* _collab_([\w.]+(?:_[\w.]+)*)$ as searched: the leftmost match
COLLAB_FOLDER_RE ==
    <<StarLazy(Tokens, 0)>> \o LitSeq(<<"_", "collab", "_">>)
    \o <<Plus(HandleTok, 1)>>

\* a collaborator extraction that reads the folder name first and the
\* metadata only when the name has no _collab_ part
CollaboratorsFromFolderFirst(folder_name, metadata) ==
    Value({IF m.ok THEN ReplaceUnderscore(m.g[1])
           ELSE IF Get(metadata, "collaborators") # << >>
           THEN JoinComma(metadata["collaborators"])
           ELSE << >> :
           m \in {Match(COLLAB_FOLDER_RE, 1, folder_name)}})

extract_collaborators(folder_name, metadata) ==
    IF Get(metadata, "collaborators") # << >>
    THEN JoinComma(metadata["collaborators"])
    ELSE Value({IF m.ok THEN ReplaceUnderscore(m.g[1]) ELSE << >> :
                m \in {Match(COLLAB_FOLDER_RE, 1, folder_name)}})

---------------------------------------------------------------------------
(* models.py: ContentItem, with the defaults of the dataclass.             *)

ContentItem ==
    [timestamp |-> << >>, shortcode |-> << >>, real_name |-> << >>,
     username |-> << >>, post_type |-> << >>, downloader |-> << >>,
     post_date |-> << >>, collaborators |-> << >>, manual_notes |-> << >>,
     db_link |-> << >>, paired_content |-> << >>,
     stories_reshare_links |-> << >>, primary_beginning_tags |-> << >>,
     secondary_beginning_tags |-> << >>, general_triggers |-> << >>,
     sheet_categories |-> << >>, books |-> << >>, conditions |-> << >>,
     emotional_support |-> << >>, fear |-> << >>, food |-> << >>,
     healing_stories |-> << >>, healing_tools |-> << >>,
     healing_tools_more |-> << >>, history |-> << >>, miscellaneous |-> << >>,
     mm_science |-> << >>, other |-> << >>, pw_trends |-> << >>,
     resources |-> << >>, supporting |-> << >>, mo_publication |-> << >>,
     mo_pw |-> << >>, mo_rpt |-> << >>, mo_si |-> << >>, mo_ts |-> << >>,
     mo_wts |-> << >>, source_path |-> << >>, source_files |-> << >>,
     is_folder_item |-> FALSE, has_metadata_json |-> FALSE,
     folder_type |-> << >>, content_section |-> << >>, batch |-> << >>,
     wpas_code |-> << >>, destination_path |-> << >>,
     resharer_username |-> << >>, resharer_name |-> << >>]

\* if col and val and hasattr(item, col): setattr(item, col, val)
SetColumn(item, col, val) ==
    IF col # << >> /\ val # << >> /\ Len(col) = 1 /\ col[1] \in DOMAIN item
    THEN [item EXCEPT ![col[1]] = val]
    ELSE item

---------------------------------------------------------------------------
(* scanner.py: the shared item builders.  A builder returns ok (an item,   *)
(* not None), the item, and exc: the exception that escaped it, "none",    *)
(* "perm" (PermissionError) or "attr" (AttributeError).                    *)

NoItem == [ok |-> FALSE, exc |-> "none", item |-> ContentItem]

Raised(e) == [ok |-> FALSE, exc |-> e, item |-> ContentItem]

\* a folder record that collects the files below the folder's parent
AllFilesOfParent(f, folder) ==
    SelectSeq(RGlob(f, Parent(folder)), LAMBDA p : is_file(f, p) /\ ~Hidden(Name(p)))

\* [f for f in folder.rglob("*") if f.is_file() and not f.name.startswith(".")]
AllFiles(f, folder) ==
    SelectSeq(RGlob(f, folder), LAMBDA p : is_file(f, p) /\ ~Hidden(Name(p)))

\* list(folder.rglob("*_metadata.json"))
MetaFiles(f, folder) ==
    SelectSeq(RGlob(f, folder),
              LAMBDA p : Len(Name(p)) >= 4 /\
                         SubSeq(Name(p), Len(Name(p)) - 3, Len(Name(p)))
                             = <<"_", "metadata", ".", "json">>)

_build_post_item(f, folder, downloader, archive_date, folder_type, content_section) ==
    Value({
        LET metadata == meta.d
            has_meta == metadata # << >>
            username == IF Get(metadata, "username") # << >>
                        THEN metadata["username"] ELSE parsed.username
            shortcode == IF Get(metadata, "shortcode") # << >>
                         THEN metadata["shortcode"] ELSE parsed.shortcode
            date_str == IF Get(metadata, "posted_at") # << >>
                        THEN Slice(metadata["posted_at"], 10)
                        ELSE format_date(parsed.date_str)
            media_dir == Append(folder, <<"media">>)
            db_link == IF is_dir(f, media_dir) /\ media_files # << >>
                       THEN StrOfPath(media_files[1]) ELSE << >>
            dest == Join(Join(ARCHIVE_ROOT, username), Name(folder))
            paired == Contains(Name(folder), <<" ", "-", " ", "PAIRED">>)
        IN  IF ~parsed.ok THEN NoItem
            ELSE IF meta.exc THEN Raised("attr")
            ELSE IF is_dir(f, media_dir) /\ media_dir \in f.denied THEN Raised("perm")
            ELSE [ok |-> TRUE, exc |-> "none",
                  item |-> [ContentItem EXCEPT
                      !.timestamp = archive_date,
                      !.shortcode = shortcode,
                      !.real_name = Get(metadata, "full_name"),
                      !.username = username,
                      !.post_type = <<"Post">>,
                      !.downloader = downloader,
                      !.post_date = date_str,
                      !.collaborators = extract_collaborators(Name(folder), metadata),
                      !.db_link = db_link,
                      !.paired_content = IF paired THEN <<"Yes">> ELSE << >>,
                      !.destination_path = StrOfPath(dest),
                      !.source_path = folder,
                      !.source_files = AllFiles(f, folder),
                      !.is_folder_item = TRUE,
                      !.has_metadata_json = has_meta,
                      !.folder_type = folder_type,
                      !.content_section = content_section]] :
        parsed \in {parse_post_folder(Name(folder))},
        meta \in {Value({IF meta_files # << >>
                         THEN parse_metadata_json(f, meta_files[1])
                         ELSE [exc |-> FALSE, d |-> << >>] :
                         meta_files \in {MetaFiles(f, folder)}})},
        media_files \in {SortPaths({p \in Children(f, Append(folder, <<"media">>)) :
                                    is_file(f, p) /\ ~Hidden(Name(p))})}})

_build_profile_item(f, folder, downloader, archive_date, folder_type, content_section) ==
    Value({
        LET handle == parsed.handle
            date_str == parsed.date_str
            pseudo == generate_pseudo_shortcode(handle, date_str, Name(folder))
            dest == Join(Join(ARCHIVE_ROOT, handle), Name(folder))
        IN  IF ~parsed.ok THEN NoItem
            ELSE [ok |-> TRUE, exc |-> "none",
                  item |-> [ContentItem EXCEPT
                      !.timestamp = archive_date,
                      !.shortcode = pseudo,
                      !.real_name = parsed.full_name,
                      !.username = handle,
                      !.post_type = <<"Profile">>,
                      !.downloader = downloader,
                      !.post_date = date_str,
                      !.destination_path = StrOfPath(dest),
                      !.source_path = folder,
                      !.source_files = AllFiles(f, folder),
                      !.is_folder_item = TRUE,
                      !.folder_type = folder_type,
                      !.content_section = content_section]] :
        parsed \in {parse_profile_folder(Name(folder))}})

_build_comment_thread_item(f, folder, downloader, archive_date, folder_type, content_section) ==
    Value({
        LET handle == parsed.handle
            date_str == parsed.date_str
            pseudo == generate_pseudo_shortcode(handle, date_str, Name(folder))
            dest == Join(Join(ARCHIVE_ROOT, handle), Name(folder))
            paired == Contains(Name(folder), <<" ", "-", " ", "PAIRED">>)
        IN  IF ~parsed.ok THEN NoItem
            ELSE [ok |-> TRUE, exc |-> "none",
                  item |-> [ContentItem EXCEPT
                      !.timestamp = archive_date,
                      !.shortcode = pseudo,
                      !.username = handle,
                      !.post_type = <<"Comment", " ", "Thread">>,
                      !.downloader = downloader,
                      !.post_date = date_str,
                      !.paired_content = IF paired THEN <<"Yes">> ELSE << >>,
                      !.destination_path = StrOfPath(dest),
                      !.source_path = folder,
                      !.source_files = AllFiles(f, folder),
                      !.is_folder_item = TRUE,
                      !.folder_type = folder_type,
                      !.content_section = content_section]] :
        parsed \in {parse_comment_folder(Name(folder))}})

_build_named_story_item(f, folder, downloader, archive_date, folder_type, content_section) ==
    Value({
        LET handle == parsed.handle
            date_str == parsed.date_str
            pseudo == generate_pseudo_shortcode(handle, date_str, Name(folder))
            dest == Join(Join(ARCHIVE_ROOT, handle), Name(folder))
        IN  IF ~parsed.ok THEN NoItem
            ELSE [ok |-> TRUE, exc |-> "none",
                  item |-> [ContentItem EXCEPT
                      !.timestamp = archive_date,
                      !.shortcode = pseudo,
                      !.real_name = parsed.full_name,
                      !.username = handle,
                      !.post_type = <<"Story", " ", "Collection">>,
                      !.downloader = downloader,
                      !.post_date = date_str,
                      !.destination_path = StrOfPath(dest),
                      !.source_path = folder,
                      !.source_files = AllFiles(f, folder),
                      !.is_folder_item = TRUE,
                      !.folder_type = folder_type,
                      !.content_section = content_section]] :
        parsed \in {parse_named_story_folder(Name(folder))}})

---------------------------------------------------------------------------
(* scanner.py: the story file helpers and the accumulator.  story_groups   *)
(* is the defaultdict, as the sequence of its groups in insertion order;   *)
(* key is the dict key of a group.                                         *)

DefaultGroup(key) ==
    [key |-> key, files |-> << >>, username |-> << >>, full_name |-> << >>,
     shortcode |-> << >>, date_str |-> << >>, media_type |-> << >>,
     ctx |-> << >>, parent_dir |-> << >>]

\* d[k] = v on a dict
DictSet(d, k, v) == [x \in DOMAIN d \cup {k} |-> IF x = k THEN v ELSE d[x]]

\* lines 972-978: the file, and the fields taken from its name
StageFields(group, file_path, parsed) ==
    [group EXCEPT
        !.files = Append(group.files, file_path),
        !.shortcode = parsed.shortcode,
        !.username = parsed.username,
        !.date_str = parsed.date_str,
        !.parent_dir = Parent(file_path)]

\* a staging that assigns the display name whatever it is
StageFullNameAlways(group, parsed) == [group EXCEPT !.full_name = parsed.full_name]

\* lines 975-976
StageFullName(group, parsed) ==
    IF parsed.full_name # << >>
    THEN [group EXCEPT !.full_name = parsed.full_name]
    ELSE group

\* a staging that classifies the file of any role by its extension
StageMediaTypeAnyRole(group, parsed) ==
    IF parsed.ext \in {<<"mp4">>}
    THEN [group EXCEPT !.media_type = <<"Video">>]
    ELSE [group EXCEPT !.media_type = <<"Image">>]

\* lines 980-985
StageMediaType(group, parsed) ==
    IF parsed.suffix = <<"raw">>
    THEN IF parsed.ext \in {<<"mp4">>}
         THEN [group EXCEPT !.media_type = <<"Video">>]
         ELSE IF parsed.ext \in {<<"jpg">>, <<"jpeg">>, <<"png">>}
         THEN [group EXCEPT !.media_type = <<"Image">>]
         ELSE group
    ELSE group

\* a staging that takes the path context of every file staged
StagePathContextAlways(group, file_path, root_dir) ==
    [group EXCEPT !.ctx =
        parse_sat_daily_stories_context(RelParts(Parent(file_path), root_dir))]

\* lines 987-993: the path context, captured while the group has none
StagePathContext(group, file_path, root_dir) ==
    IF DOMAIN group.ctx = {}
    THEN IF IsUnder(Parent(file_path), root_dir)
         THEN [group EXCEPT !.ctx =
                  parse_sat_daily_stories_context(RelParts(Parent(file_path), root_dir))]
         ELSE [group EXCEPT !.ctx = << >>]
    ELSE group

\* lines 995-998
StageMoContext(group, mo_column, mo_value) ==
    IF mo_column # << >>
    THEN [group EXCEPT !.ctx =
             DictSet(DictSet(group.ctx, "mo_column", mo_column), "mo_value", mo_value)]
    ELSE group

\* a staging that keeps the resharer a group already has
StageResharerOnce(group, resharer_username, resharer_name) ==
    IF resharer_username # << >> /\ "resharer_username" \notin DOMAIN group.ctx
    THEN [group EXCEPT !.ctx =
             [x \in DOMAIN group.ctx \cup {"resharer_username", "resharer_name"} |->
                 IF x = "resharer_username" THEN resharer_username
                 ELSE IF x = "resharer_name" THEN resharer_name
                 ELSE group.ctx[x]]]
    ELSE group

\* lines 1000-1003
StageResharer(group, resharer_username, resharer_name) ==
    IF resharer_username # << >>
    THEN [group EXCEPT !.ctx =
             DictSet(DictSet(group.ctx, "resharer_username", resharer_username),
                     "resharer_name", resharer_name)]
    ELSE group

\* a lookup that finds a group only while it is the newest one
NewestGroupIndex(groups, shortcode) ==
    IF groups # << >> /\ groups[Len(groups)].key = shortcode
    THEN Len(groups)
    ELSE Len(groups) + 1

\* story_groups[shortcode]: the index of the group, inserted when missing
GroupIndex(groups, shortcode) ==
    IF \E i \in 1..Len(groups) : groups[i].key = shortcode
    THEN CHOOSE i \in 1..Len(groups) : groups[i].key = shortcode
    ELSE Len(groups) + 1

_add_to_story_group(file_path, parsed, root_dir, groups, mo_column, mo_value, resharer_username, resharer_name) ==
    LET shortcode == parsed.shortcode
        i == GroupIndex(groups, shortcode)
        had == IF i <= Len(groups) THEN groups ELSE Append(groups, DefaultGroup(shortcode))
    IN  [had EXCEPT ![i] =
            StageResharer(
                StageMoContext(
                    StagePathContext(
                        StageMediaType(
                            StageFullName(StageFields(had[i], file_path, parsed), parsed),
                            parsed),
                        file_path, root_dir),
                    mo_column, mo_value),
                resharer_username, resharer_name)]

_folder_contains_story_files(f, folder) ==
    /\ folder \notin f.denied
    /\ \E entry \in Children(f, folder) :
           is_file(f, entry) /\ Match(STORY_FILE_RE, 7, Name(entry)).ok

\* A walk threads st: the items appended so far, the story groups, exc,
\* the exception now propagating ("none" when there is none), and calls,
\* the arguments of the calls of _add_to_story_group made so far.
NewWalk == [items |-> << >>, groups |-> << >>, exc |-> "none", calls |-> << >>]

\* one call of _add_to_story_group on the walk's story groups
Staged(st, file_path, parsed, root_dir, mo_column, mo_value, resharer_username, resharer_name) ==
    [st EXCEPT
        !.groups = _add_to_story_group(file_path, parsed, root_dir, st.groups, mo_column,
                                       mo_value, resharer_username, resharer_name),
        !.calls = Append(st.calls,
                         [file_path |-> file_path, parsed |-> parsed, root_dir |-> root_dir,
                          mo_column |-> mo_column, mo_value |-> mo_value,
                          resharer_username |-> resharer_username,
                          resharer_name |-> resharer_name])]

\* the loop of _collect_story_files_from_dir over the sorted entries
RECURSIVE CollectLoop(_, _, _, _, _, _)
CollectLoop(f, entries, root_dir, st, mo_column, mo_value) ==
    IF entries = << >> THEN st
    ELSE CollectLoop(f, Tail(entries), root_dir,
             Value({IF is_file(f, Head(entries)) /\ parsed.ok
                    THEN Staged(st, Head(entries), parsed, root_dir, mo_column, mo_value,
                                << >>, << >>)
                    ELSE st :
                    parsed \in {parse_story_filename(Name(Head(entries)))}}),
             mo_column, mo_value)

_collect_story_files_from_dir(f, folder, root_dir, st, mo_column, mo_value) ==
    IF folder \in f.denied THEN st
    ELSE CollectLoop(f, Sorted(f, folder), root_dir, st, mo_column, mo_value)

---------------------------------------------------------------------------
(* scanner.py: the SAT Daily scanner.  A loop is a recursive operator over *)
(* the entries left; it is left when an exception propagates.              *)

\* return items
Returned(st) == [items |-> st.items, exc |-> st.exc]

\* except PermissionError: pass
ExceptPermissionError(st) == IF st.exc = "perm" THEN [st EXCEPT !.exc = "none"] ELSE st

\* items.append(item) when the builder returned one; its exception propagates
AppendBuilt(st, b) ==
    IF b.exc # "none" THEN [st EXCEPT !.exc = b.exc]
    ELSE IF b.ok THEN [st EXCEPT !.items = Append(st.items, b.item)]
    ELSE st

\* lines 209-218 and 244-253: batch and dropdown column from the parent's position
WithStoriesContext(b, d, stories_root) ==
    IF b.ok
    THEN Value({[b EXCEPT !.item =
                    SetColumn([b.item EXCEPT !.batch = Get(ctx, "batch")],
                              Get(ctx, "dropdown_column"), Get(ctx, "dropdown_value"))] :
                ctx \in {parse_sat_daily_stories_context(RelParts(Parent(d), stories_root))}})
    ELSE b

\* the conversion of one story group of the Stories section (lines 144-171)
StoriesGroupItem(group, downloader, archive_date) ==
    LET dest == Join(Join(ARCHIVE_ROOT, group.username),
                     group.username \o <<"_", "story", "_">> \o group.key)
        ctx == group.ctx
    IN  SetColumn(
            [ContentItem EXCEPT
                !.timestamp = archive_date,
                !.shortcode = group.key,
                !.real_name = group.full_name,
                !.username = group.username,
                !.post_type = <<"Story">>,
                !.downloader = downloader,
                !.post_date = format_date(group.date_str),
                !.db_link = IF group.files # << >> THEN StrOfPath(group.files[1]) ELSE << >>,
                !.batch = Get(ctx, "batch"),
                !.wpas_code = Get(ctx, "wpas_code"),
                !.destination_path = StrOfPath(dest),
                !.source_path = group.parent_dir,
                !.source_files = group.files,
                !.is_folder_item = FALSE,
                !.folder_type = <<"sat_daily">>,
                !.content_section = <<"stories">>],
            Get(ctx, "dropdown_column"), Get(ctx, "dropdown_value"))

RECURSIVE _walk_stories_tree(_, _, _, _, _, _)

\* the body of the loop over dirs (lines 201-258)
WalkStoriesDir(f, d, stories_root, st, downloader, archive_date) ==
    LET name == Name(d)
    IN  IF Match(POST_FOLDER_RE, 3, name).ok
        THEN AppendBuilt(st, WithStoriesContext(
                 _build_post_item(f, d, downloader, archive_date, <<"sat_daily">>, <<"stories">>),
                 d, stories_root))
        ELSE IF Match(PROFILE_FOLDER_RE, 3, name).ok
        THEN AppendBuilt(st,
                 _build_profile_item(f, d, downloader, archive_date, <<"sat_daily">>, <<"stories">>))
        ELSE IF Match(COMMENT_FOLDER_RE, 2, name).ok
        THEN AppendBuilt(st,
                 _build_comment_thread_item(f, d, downloader, archive_date, <<"sat_daily">>, <<"stories">>))
        ELSE IF Match(NAMED_STORY_FOLDER_RE, 3, name).ok \/ Match(STORIES_TXT_FOLDER_RE, 2, name).ok
        THEN IF _folder_contains_story_files(f, d)
             THEN _collect_story_files_from_dir(f, d, stories_root, st, << >>, << >>)
             ELSE AppendBuilt(st, WithStoriesContext(
                      _build_named_story_item(f, d, downloader, archive_date, <<"sat_daily">>, <<"stories">>),
                      d, stories_root))
        ELSE _walk_stories_tree(f, d, stories_root, st, downloader, archive_date)

\* the body of the loop over files (lines 261-264)
WalkStoriesFile(file, stories_root, st) ==
    Value({IF parsed.ok
           THEN Staged(st, file, parsed, stories_root, << >>, << >>, << >>, << >>)
           ELSE st :
           parsed \in {parse_story_filename(Name(file))}})

\* for d in dirs
RECURSIVE WalkDirsLoop(_, _, _, _, _, _)
WalkDirsLoop(f, dirs, stories_root, st, downloader, archive_date) ==
    IF dirs = << >> \/ st.exc # "none" THEN st
    ELSE WalkDirsLoop(f, Tail(dirs), stories_root,
                      WalkStoriesDir(f, Head(dirs), stories_root, st, downloader, archive_date),
                      downloader, archive_date)

\* for f in files
RECURSIVE WalkFilesLoop(_, _, _)
WalkFilesLoop(files, stories_root, st) ==
    IF files = << >> \/ st.exc # "none" THEN st
    ELSE WalkFilesLoop(Tail(files), stories_root, WalkStoriesFile(Head(files), stories_root, st))

_walk_stories_tree(f, current, stories_root, st, downloader, archive_date) ==
    IF current \in f.denied THEN st
    ELSE Value({
             LET dirs == SelectSeq(entries, LAMBDA e : ~Hidden(Name(e)) /\ is_dir(f, e))
                 files == SelectSeq(entries, LAMBDA e : ~Hidden(Name(e)) /\ is_file(f, e))
             IN  WalkFilesLoop(files, stories_root,
                     WalkDirsLoop(f, dirs, stories_root, st, downloader, archive_date)) :
             entries \in {Sorted(f, current)}})

\* the walk of _scan_sat_daily_stories (line 141)
StoriesWalk(f, stories_dir, downloader, archive_date) ==
    _walk_stories_tree(f, stories_dir, stories_dir, NewWalk, downloader, archive_date)

_scan_sat_daily_stories(f, stories_dir, downloader, archive_date) ==
    Value({[items |-> st.items \o
                      [i \in 1..Len(st.groups) |->
                          StoriesGroupItem(st.groups[i], downloader, archive_date)],
            exc |-> st.exc] :
           st \in {StoriesWalk(f, stories_dir, downloader, archive_date)}})

\* the body of the inner loop of _scan_sat_daily_pv (lines 275-281)
PvPostDir(f, st, post_dir, downloader, archive_date) ==
    IF ~is_dir(f, post_dir) \/ Hidden(Name(post_dir)) THEN st
    ELSE IF Match(POST_FOLDER_RE, 3, Name(post_dir)).ok
    THEN AppendBuilt(st,
             _build_post_item(f, post_dir, downloader, archive_date, <<"sat_daily">>, <<"pv">>))
    ELSE st

\* for post_dir in sorted(username_dir.iterdir())
RECURSIVE PvPostLoop(_, _, _, _, _)
PvPostLoop(f, st, post_dirs, downloader, archive_date) ==
    IF post_dirs = << >> \/ st.exc # "none" THEN st
    ELSE PvPostLoop(f, PvPostDir(f, st, Head(post_dirs), downloader, archive_date),
                    Tail(post_dirs), downloader, archive_date)

\* the body of the outer loop (lines 272-281)
PvUsernameDir(f, st, username_dir, downloader, archive_date) ==
    IF ~is_dir(f, username_dir) \/ Hidden(Name(username_dir)) THEN st
    ELSE IF username_dir \in f.denied THEN [st EXCEPT !.exc = "perm"]
    ELSE PvPostLoop(f, st, Sorted(f, username_dir), downloader, archive_date)

\* for username_dir in sorted(pv_dir.iterdir())
RECURSIVE PvUsernameLoop(_, _, _, _, _)
PvUsernameLoop(f, st, username_dirs, downloader, archive_date) ==
    IF username_dirs = << >> \/ st.exc # "none" THEN st
    ELSE PvUsernameLoop(f, PvUsernameDir(f, st, Head(username_dirs), downloader, archive_date),
                        Tail(username_dirs), downloader, archive_date)

_scan_sat_daily_pv(f, pv_dir, downloader, archive_date) ==
    Returned(ExceptPermissionError(
        IF pv_dir \in f.denied THEN [NewWalk EXCEPT !.exc = "perm"]
        ELSE PvUsernameLoop(f, NewWalk, Sorted(f, pv_dir), downloader, archive_date)))

\* if item and mo_column and hasattr(item, mo_column): setattr(item, mo_column, mo_value)
WithMoColumn(b, mo_column, mo_value) ==
    IF b.ok /\ mo_column # << >> /\ Len(mo_column) = 1 /\ mo_column[1] \in DOMAIN b.item
    THEN [b EXCEPT !.item = [b.item EXCEPT ![mo_column[1]] = mo_value]]
    ELSE b

\* the body of the loop of _scan_mo_category (lines 370-399)
MoCategoryEntry(f, st, entry, mo_column, mo_value, root_dir, downloader, archive_date, folder_type, content_section) ==
    IF Hidden(Name(entry)) THEN st
    ELSE IF is_dir(f, entry)
    THEN IF Match(POST_FOLDER_RE, 3, Name(entry)).ok
         THEN AppendBuilt(st, WithMoColumn(
                  _build_post_item(f, entry, downloader, archive_date, folder_type, content_section),
                  mo_column, mo_value))
         ELSE IF \/ Match(NAMED_STORY_FOLDER_RE, 3, Name(entry)).ok
                 \/ Match(STORIES_TXT_FOLDER_RE, 2, Name(entry)).ok
         THEN IF _folder_contains_story_files(f, entry)
              THEN _collect_story_files_from_dir(f, entry, root_dir, st, mo_column, mo_value)
              ELSE AppendBuilt(st, WithMoColumn(
                       _build_named_story_item(f, entry, downloader, archive_date, folder_type, content_section),
                       mo_column, mo_value))
         ELSE IF Match(PROFILE_FOLDER_RE, 3, Name(entry)).ok
         THEN AppendBuilt(st, WithMoColumn(
                  _build_profile_item(f, entry, downloader, archive_date, folder_type, content_section),
                  mo_column, mo_value))
         ELSE st
    ELSE Value({IF is_file(f, entry) /\ parsed.ok
                THEN Staged(st, entry, parsed, root_dir, mo_column, mo_value, << >>, << >>)
                ELSE st :
                parsed \in {parse_story_filename(Name(entry))}})

\* for entry in entries
RECURSIVE MoCategoryLoop(_, _, _, _, _, _, _, _, _, _)
MoCategoryLoop(f, st, entries, mo_column, mo_value, root_dir, downloader, archive_date, folder_type, content_section) ==
    IF entries = << >> \/ st.exc # "none" THEN st
    ELSE MoCategoryLoop(f,
             MoCategoryEntry(f, st, Head(entries), mo_column, mo_value, root_dir,
                             downloader, archive_date, folder_type, content_section),
             Tail(entries), mo_column, mo_value, root_dir,
             downloader, archive_date, folder_type, content_section)

_scan_mo_category(f, category_dir, mo_column, mo_value, st, root_dir, downloader, archive_date, folder_type, content_section) ==
    IF category_dir \in f.denied THEN st
    ELSE MoCategoryLoop(f, st, Sorted(f, category_dir), mo_column, mo_value, root_dir,
                        downloader, archive_date, folder_type, content_section)

\* the conversion of one story group whose MO column is set from its
\* context (lines 324-347, 466-488)
MoGroupItem(group, downloader, archive_date, folder_type, content_section) ==
    LET dest == Join(Join(ARCHIVE_ROOT, group.username),
                     group.username \o <<"_", "story", "_">> \o group.key)
        ctx == group.ctx
    IN  SetColumn(
            [ContentItem EXCEPT
                !.timestamp = archive_date,
                !.shortcode = group.key,
                !.real_name = group.full_name,
                !.username = group.username,
                !.post_type = <<"Story">>,
                !.downloader = downloader,
                !.post_date = format_date(group.date_str),
                !.db_link = IF group.files # << >> THEN StrOfPath(group.files[1]) ELSE << >>,
                !.destination_path = StrOfPath(dest),
                !.source_path = group.parent_dir,
                !.source_files = group.files,
                !.is_folder_item = FALSE,
                !.folder_type = folder_type,
                !.content_section = content_section],
            Get(ctx, "mo_column"), Get(ctx, "mo_value"))

\* for category_dir in sorted(type_dir.iterdir()) (lines 309-319)
RECURSIVE MoCategoryDirsLoop(_, _, _, _, _, _, _)
MoCategoryDirsLoop(f, st, category_dirs, mo_column, mo_dir, downloader, archive_date) ==
    IF category_dirs = << >> \/ st.exc # "none" THEN st
    ELSE MoCategoryDirsLoop(f,
             IF ~is_dir(f, Head(category_dirs)) \/ Hidden(Name(Head(category_dirs))) THEN st
             ELSE _scan_mo_category(f, Head(category_dirs), mo_column,
                                    Name(Head(category_dirs)), st, mo_dir,
                                    downloader, archive_date, <<"sat_daily">>, <<"mo">>),
             Tail(category_dirs), mo_column, mo_dir, downloader, archive_date)

\* the body of the loop over the type directories (lines 303-319)
MoTypeDir(f, st, type_dir, mo_dir, downloader, archive_date) ==
    LET mo_type == Name(type_dir)
        mo_column == IF mo_type \in DOMAIN MO_PATH_TO_COLUMN
                     THEN <<MO_PATH_TO_COLUMN[mo_type]>> ELSE << >>
    IN  IF ~is_dir(f, type_dir) \/ Hidden(mo_type) THEN st
        ELSE IF type_dir \in f.denied THEN [st EXCEPT !.exc = "perm"]
        ELSE MoCategoryDirsLoop(f, st, Sorted(f, type_dir), mo_column, mo_dir,
                                downloader, archive_date)

\* for type_dir in sorted(mo_dir.iterdir())
RECURSIVE MoTypeLoop(_, _, _, _, _, _)
MoTypeLoop(f, st, type_dirs, mo_dir, downloader, archive_date) ==
    IF type_dirs = << >> \/ st.exc # "none" THEN st
    ELSE MoTypeLoop(f, MoTypeDir(f, st, Head(type_dirs), mo_dir, downloader, archive_date),
                    Tail(type_dirs), mo_dir, downloader, archive_date)

\* the try statement of _scan_sat_daily_mo (lines 302-321)
MoWalk(f, mo_dir, downloader, archive_date) ==
    ExceptPermissionError(
        IF mo_dir \in f.denied THEN [NewWalk EXCEPT !.exc = "perm"]
        ELSE MoTypeLoop(f, NewWalk, Sorted(f, mo_dir), mo_dir, downloader, archive_date))

_scan_sat_daily_mo(f, mo_dir, downloader, archive_date) ==
    Value({[items |-> caught.items \o
                      [i \in 1..Len(caught.groups) |->
                          MoGroupItem(caught.groups[i], downloader, archive_date,
                                      <<"sat_daily">>, <<"mo">>)],
            exc |-> caught.exc] :
           caught \in {MoWalk(f, mo_dir, downloader, archive_date)}})

\* the first directory the operating system lists that SAT_CHECKS_RE
\* matches: << >> when there is none, or the listing fails
SatChecksDir(f, dir) ==
    IF dir \in f.denied THEN << >>
    ELSE Value({IF found = << >> THEN << >> ELSE found[1] :
                found \in {SelectSeq(Listing(f, dir),
                                     LAMBDA e : is_dir(f, e) /\
                                                Match(SAT_CHECKS_RE, 1, Name(e)).ok)}})

\* extend the list with a section's items; an exception of the section propagates
Extend(acc, scanned) ==
    IF acc.exc # "none" THEN acc
    ELSE [items |-> acc.items \o scanned.items, exc |-> scanned.exc]

NoItems == [items |-> << >>, exc |-> "none"]

\* the section of a source folder when it is a directory, else no items
Section(f, acc, dir, scanned) ==
    IF acc.exc = "none" /\ is_dir(f, dir) THEN Extend(acc, scanned) ELSE acc

_scan_sat_daily(f, dir, downloader) ==
    Value({
        LET archive_date == today_str
            stories_dir == Append(sat_checks, <<"Stories">>)
            pv_dir == Append(sat_checks, <<"P&V">>)
            mo_dir == Append(Append(sat_checks, <<"Additional">>), <<"MO">>)
        IN  IF sat_checks = << >> THEN NoItems
            ELSE Section(f,
                     Section(f,
                         Section(f, NoItems, stories_dir,
                                 _scan_sat_daily_stories(f, stories_dir, downloader,
                                                         archive_date)),
                         pv_dir, _scan_sat_daily_pv(f, pv_dir, downloader, archive_date)),
                     mo_dir, _scan_sat_daily_mo(f, mo_dir, downloader, archive_date)) :
        sat_checks \in {SatChecksDir(f, dir)}})

---------------------------------------------------------------------------
(* scanner.py: the Daily MO scanner.                                       *)

\* for cat_dir in sorted(categories_dir.iterdir()) (lines 452-461)
RECURSIVE CategoriesLoop(_, _, _, _, _)
CategoriesLoop(f, st, cat_dirs, categories_dir, archive_date) ==
    IF cat_dirs = << >> \/ st.exc # "none" THEN st
    ELSE CategoriesLoop(f,
             IF ~is_dir(f, Head(cat_dirs)) \/ Hidden(Name(Head(cat_dirs))) THEN st
             ELSE _scan_mo_category(f, Head(cat_dirs), <<"mo_pw">>, Name(Head(cat_dirs)),
                                    st, categories_dir, << >>, archive_date,
                                    <<"daily_mo">>, <<"categories">>),
             Tail(cat_dirs), categories_dir, archive_date)

\* the try statement of _scan_daily_mo_categories (lines 451-463)
CategoriesWalk(f, categories_dir, archive_date) ==
    ExceptPermissionError(
        IF categories_dir \in f.denied THEN [NewWalk EXCEPT !.exc = "perm"]
        ELSE CategoriesLoop(f, NewWalk, Sorted(f, categories_dir),
                            categories_dir, archive_date))

_scan_daily_mo_categories(f, categories_dir, archive_date) ==
    Value({[items |-> caught.items \o
                      [i \in 1..Len(caught.groups) |->
                          MoGroupItem(caught.groups[i], << >>, archive_date,
                                      <<"daily_mo">>, <<"categories">>)],
            exc |-> caught.exc] :
           caught \in {CategoriesWalk(f, categories_dir, archive_date)}})

\* lines 587-592 and 629-634: a post of a reshare category
WithReshare(b, category_name, resharer_username, resharer_name) ==
    IF b.ok
    THEN [b EXCEPT !.item = [b.item EXCEPT
             !.sheet_categories = <<"Reshare">>,
             !.mo_pw = category_name,
             !.resharer_username = resharer_username,
             !.resharer_name = resharer_name]]
    ELSE b

\* the body of the loop of _scan_reshare_username_dir (lines 625-643)
ReshareUsernameEntry(f, st, entry, category_name, resharer_username, resharer_name, root_dir, archive_date) ==
    IF Hidden(Name(entry)) THEN st
    ELSE IF is_dir(f, entry) /\ Match(POST_FOLDER_RE, 3, Name(entry)).ok
    THEN AppendBuilt(st, WithReshare(
             _build_post_item(f, entry, << >>, archive_date, <<"daily_mo">>, <<"reshares">>),
             category_name, resharer_username, resharer_name))
    ELSE Value({IF is_file(f, entry) /\ parsed.ok
                THEN Staged(st, entry, parsed, root_dir,
                            <<"mo_pw">>, category_name, resharer_username, resharer_name)
                ELSE st :
                parsed \in {parse_story_filename(Name(entry))}})

RECURSIVE ReshareUsernameLoop(_, _, _, _, _, _, _, _)
ReshareUsernameLoop(f, st, entries, category_name, resharer_username, resharer_name, root_dir, archive_date) ==
    IF entries = << >> \/ st.exc # "none" THEN st
    ELSE ReshareUsernameLoop(f,
             ReshareUsernameEntry(f, st, Head(entries), category_name,
                                  resharer_username, resharer_name, root_dir, archive_date),
             Tail(entries), category_name, resharer_username, resharer_name,
             root_dir, archive_date)

_scan_reshare_username_dir(f, username_dir, category_name, resharer_username, resharer_name, st, root_dir, archive_date) ==
    IF username_dir \in f.denied THEN st
    ELSE ExceptPermissionError(
             ReshareUsernameLoop(f, st, Sorted(f, username_dir), category_name,
                                 resharer_username, resharer_name, root_dir, archive_date))

\* the body of the loop of _scan_reshare_category (lines 580-609)
ReshareCategoryEntry(f, st, entry, category_name, resharer_username, resharer_name, root_dir, archive_date) ==
    IF Hidden(Name(entry)) THEN st
    ELSE IF is_dir(f, entry)
    THEN IF Match(POST_FOLDER_RE, 3, Name(entry)).ok
         THEN AppendBuilt(st, WithReshare(
                  _build_post_item(f, entry, << >>, archive_date, <<"daily_mo">>, <<"reshares">>),
                  category_name, resharer_username, resharer_name))
         ELSE _scan_reshare_username_dir(f, entry, category_name, resharer_username,
                                         resharer_name, st, root_dir, archive_date)
    ELSE Value({IF is_file(f, entry) /\ parsed.ok
                THEN Staged(st, entry, parsed, root_dir,
                            <<"mo_pw">>, category_name, resharer_username, resharer_name)
                ELSE st :
                parsed \in {parse_story_filename(Name(entry))}})

RECURSIVE ReshareCategoryLoop(_, _, _, _, _, _, _, _)
ReshareCategoryLoop(f, st, entries, category_name, resharer_username, resharer_name, root_dir, archive_date) ==
    IF entries = << >> \/ st.exc # "none" THEN st
    ELSE ReshareCategoryLoop(f,
             ReshareCategoryEntry(f, st, Head(entries), category_name,
                                  resharer_username, resharer_name, root_dir, archive_date),
             Tail(entries), category_name, resharer_username, resharer_name,
             root_dir, archive_date)

_scan_reshare_category(f, cat_dir, category_name, resharer_username, resharer_name, st, root_dir, archive_date) ==
    IF cat_dir \in f.denied THEN st
    ELSE ReshareCategoryLoop(f, st, Sorted(f, cat_dir), category_name,
                             resharer_username, resharer_name, root_dir, archive_date)

\* for cat_dir in sorted(reshare_dir.iterdir()) (lines 517-528)
RECURSIVE ReshareCatDirsLoop(_, _, _, _, _, _, _)
ReshareCatDirsLoop(f, st, cat_dirs, resharer_username, resharer_name, reshares_dir, archive_date) ==
    IF cat_dirs = << >> \/ st.exc # "none" THEN st
    ELSE ReshareCatDirsLoop(f,
             IF ~is_dir(f, Head(cat_dirs)) \/ Hidden(Name(Head(cat_dirs))) THEN st
             ELSE _scan_reshare_category(f, Head(cat_dirs), Name(Head(cat_dirs)),
                                         resharer_username, resharer_name,
                                         st, reshares_dir, archive_date),
             Tail(cat_dirs), resharer_username, resharer_name, reshares_dir, archive_date)

\* the body of the loop over the reshare folders (lines 509-528)
ReshareDir(f, st, reshare_dir, reshares_dir, archive_date) ==
    IF ~is_dir(f, reshare_dir) \/ Hidden(Name(reshare_dir)) THEN st
    ELSE Value({
             LET resharer_username == IF reshare_info.ok THEN reshare_info.handle ELSE << >>
                 resharer_name == IF reshare_info.ok THEN reshare_info.full_name ELSE << >>
             IN  IF reshare_dir \in f.denied THEN [st EXCEPT !.exc = "perm"]
                 ELSE ReshareCatDirsLoop(f, st, Sorted(f, reshare_dir), resharer_username,
                                         resharer_name, reshares_dir, archive_date) :
             reshare_info \in {parse_reshare_folder(Name(reshare_dir))}})

RECURSIVE ReshareDirsLoop(_, _, _, _, _)
ReshareDirsLoop(f, st, reshare_dirs, reshares_dir, archive_date) ==
    IF reshare_dirs = << >> \/ st.exc # "none" THEN st
    ELSE ReshareDirsLoop(f, ReshareDir(f, st, Head(reshare_dirs), reshares_dir, archive_date),
                         Tail(reshare_dirs), reshares_dir, archive_date)

\* the conversion of one story group of the Reshares section (lines 533-558)
ResharesGroupItem(group, archive_date) ==
    LET dest == Join(Join(ARCHIVE_ROOT, group.username),
                     group.username \o <<"_", "story", "_">> \o group.key)
        ctx == group.ctx
    IN  SetColumn(
            [ContentItem EXCEPT
                !.timestamp = archive_date,
                !.shortcode = group.key,
                !.real_name = group.full_name,
                !.username = group.username,
                !.post_type = <<"Story">>,
                !.post_date = format_date(group.date_str),
                !.db_link = IF group.files # << >> THEN StrOfPath(group.files[1]) ELSE << >>,
                !.sheet_categories = <<"Reshare">>,
                !.resharer_username = Get(ctx, "resharer_username"),
                !.resharer_name = Get(ctx, "resharer_name"),
                !.destination_path = StrOfPath(dest),
                !.source_path = group.parent_dir,
                !.source_files = group.files,
                !.is_folder_item = FALSE,
                !.folder_type = <<"daily_mo">>,
                !.content_section = <<"reshares">>],
            Get(ctx, "mo_column"), Get(ctx, "mo_value"))

\* the try statement of _scan_daily_mo_reshares (lines 507-530)
ResharesWalk(f, reshares_dir, archive_date) ==
    ExceptPermissionError(
        IF reshares_dir \in f.denied THEN [NewWalk EXCEPT !.exc = "perm"]
        ELSE ReshareDirsLoop(f, NewWalk, Sorted(f, reshares_dir),
                             reshares_dir, archive_date))

_scan_daily_mo_reshares(f, reshares_dir, archive_date) ==
    Value({[items |-> caught.items \o
                      [i \in 1..Len(caught.groups) |->
                          ResharesGroupItem(caught.groups[i], archive_date)],
            exc |-> caught.exc] :
           caught \in {ResharesWalk(f, reshares_dir, archive_date)}})

\* lines 668-673: the reshare fields of a Manual reshare folder's record
WithManualReshare(b, reshare_info) ==
    IF b.ok
    THEN [b EXCEPT !.item = [b.item EXCEPT
             !.resharer_username = reshare_info.handle,
             !.resharer_name = reshare_info.full_name,
             !.sheet_categories = <<"Reshare">>]]
    ELSE b

\* the body of the loop of _scan_daily_mo_manual (lines 654-674)
ManualEntry(f, st, entry, archive_date) ==
    IF ~is_dir(f, entry) \/ Hidden(Name(entry)) THEN st
    ELSE IF \/ Match(NAMED_STORY_FOLDER_RE, 3, Name(entry)).ok
            \/ Match(STORIES_TXT_FOLDER_RE, 2, Name(entry)).ok
    THEN AppendBuilt(st,
             _build_named_story_item(f, entry, << >>, archive_date, <<"daily_mo">>, <<"manual">>))
    ELSE IF Match(RESHARE_FOLDER_RE, 3, Name(entry)).ok
    THEN Value({IF reshare_info.ok
                THEN AppendBuilt(st, WithManualReshare(
                         _build_named_story_item(f, entry, << >>, archive_date,
                                                 <<"daily_mo">>, <<"manual">>),
                         reshare_info))
                ELSE st :
                reshare_info \in {parse_reshare_folder(Name(entry))}})
    ELSE st

RECURSIVE ManualLoop(_, _, _, _)
ManualLoop(f, st, entries, archive_date) ==
    IF entries = << >> \/ st.exc # "none" THEN st
    ELSE ManualLoop(f, ManualEntry(f, st, Head(entries), archive_date),
                    Tail(entries), archive_date)

_scan_daily_mo_manual(f, manual_dir, archive_date) ==
    Returned(ExceptPermissionError(
        IF manual_dir \in f.denied THEN [NewWalk EXCEPT !.exc = "perm"]
        ELSE ManualLoop(f, NewWalk, Sorted(f, manual_dir), archive_date)))

\* the body of the loop of _scan_daily_mo_profile (lines 688-710)
ProfileEntry(f, st, entry, archive_date) ==
    IF ~is_file(f, entry) \/ Hidden(Name(entry)) THEN st
    ELSE Value({
             LET username == parsed.username
                 date_str == format_date(parsed.date_str)
                 pseudo == generate_pseudo_shortcode(username, date_str, Name(entry))
                 dest == Join(Join(ARCHIVE_ROOT, username), Name(entry))
             IN  IF ~parsed.ok THEN st
                 ELSE [st EXCEPT !.items = Append(st.items,
                          [ContentItem EXCEPT
                              !.timestamp = archive_date,
                              !.shortcode = pseudo,
                              !.username = username,
                              !.post_type = <<"Profile">>,
                              !.post_date = date_str,
                              !.db_link = StrOfPath(entry),
                              !.destination_path = StrOfPath(dest),
                              !.source_path = entry,
                              !.source_files = <<entry>>,
                              !.is_folder_item = FALSE,
                              !.folder_type = <<"daily_mo">>,
                              !.content_section = <<"profile">>])] :
             parsed \in {parse_profile_file(Name(entry))}})

RECURSIVE ProfileLoop(_, _, _, _)
ProfileLoop(f, st, entries, archive_date) ==
    IF entries = << >> THEN st
    ELSE ProfileLoop(f, ProfileEntry(f, st, Head(entries), archive_date),
                     Tail(entries), archive_date)

_scan_daily_mo_profile(f, profile_dir, archive_date) ==
    Returned(IF profile_dir \in f.denied THEN NewWalk
             ELSE ProfileLoop(f, NewWalk, Sorted(f, profile_dir), archive_date))

\* the body of the loop of _scan_daily_mo_ve (lines 723-747)
VeEntry(f, st, entry, archive_date) ==
    IF ~is_file(f, entry) \/ Hidden(Name(entry)) THEN st
    ELSE Value({
             LET handle == parsed.handle
                 pseudo == generate_pseudo_shortcode(handle, parsed.date_str, Name(entry))
                 dest == Join(Join(ARCHIVE_ROOT, handle), Name(entry))
             IN  IF ~parsed.ok THEN st
                 ELSE [st EXCEPT !.items = Append(st.items,
                          [ContentItem EXCEPT
                              !.timestamp = archive_date,
                              !.shortcode = pseudo,
                              !.real_name = parsed.full_name,
                              !.username = handle,
                              !.post_type = <<"VE">>,
                              !.post_date = parsed.date_str,
                              !.db_link = StrOfPath(entry),
                              !.destination_path = StrOfPath(dest),
                              !.source_path = entry,
                              !.source_files = <<entry>>,
                              !.is_folder_item = FALSE,
                              !.folder_type = <<"daily_mo">>,
                              !.content_section = <<"ve">>])] :
             parsed \in {parse_ve_file(Name(entry))}})

RECURSIVE VeLoop(_, _, _, _)
VeLoop(f, st, entries, archive_date) ==
    IF entries = << >> THEN st
    ELSE VeLoop(f, VeEntry(f, st, Head(entries), archive_date), Tail(entries), archive_date)

_scan_daily_mo_ve(f, ve_dir, archive_date) ==
    Returned(IF ve_dir \in f.denied THEN NewWalk
             ELSE VeLoop(f, NewWalk, Sorted(f, ve_dir), archive_date))

_scan_daily_mo(f, dir) ==
    LET archive_date == today_str
        categories_dir == Append(dir, <<"Categories">>)
        reshares_dir == Append(dir, <<"Reshares">>)
        manual_dir == Append(dir, <<"Manual">>)
        profile_dir == Append(dir, <<"Profile">>)
        ve_dir == Append(dir, <<"VE">>)
    IN  Section(f,
            Section(f,
                Section(f,
                    Section(f,
                        Section(f, NoItems, categories_dir,
                                _scan_daily_mo_categories(f, categories_dir, archive_date)),
                        reshares_dir, _scan_daily_mo_reshares(f, reshares_dir, archive_date)),
                    manual_dir, _scan_daily_mo_manual(f, manual_dir, archive_date)),
                profile_dir, _scan_daily_mo_profile(f, profile_dir, archive_date)),
            ve_dir, _scan_daily_mo_ve(f, ve_dir, archive_date))

\* (folder_type, downloader_initials)
detect_folder_type(f, dir) ==
    IF StartsWith(Name(dir), <<"SAT", " ", "Daily", " ", "on", " ">>)
    THEN Value({IF sat_checks # << >>
                THEN <<"sat_daily", Match(SAT_CHECKS_RE, 1, Name(sat_checks)).g[1]>>
                ELSE <<"sat_daily", << >> >> :
                sat_checks \in {SatChecksDir(f, dir)}})
    ELSE IF StartsWith(Name(dir), <<"Daily", " ", "MO", " ", "on", " ">>)
    THEN <<"daily_mo", << >> >>
    ELSE <<"unknown", << >> >>

scan_folder(f, dir) ==
    Value({IF t[1] = "sat_daily" THEN _scan_sat_daily(f, dir, t[2])
           ELSE IF t[1] = "daily_mo" THEN _scan_daily_mo(f, dir)
           ELSE NoItems :
           t \in {detect_folder_type(f, dir)}})

---------------------------------------------------------------------------
(* mover.py.  A disk d is a record: d.dirs is the set of its directories   *)
(* and d.files a function from the paths of its files to their contents;   *)
(* a content is named by the path at which the file was first.  An         *)
(* operation returns the disk it leaves and exc: whether it raised.        *)

NoDisk == [dirs |-> {}, files |-> [p \in {} |-> p]]

\* Path(s): the parts of the string s, split at its separators
RECURSIVE PathOfStr(_)
PathOfStr(s) ==
    IF s = << >> THEN << >>
    ELSE LET k == IF \E i \in 1..Len(s) : s[i] = "/"
                  THEN CHOOSE i \in 1..Len(s) :
                           s[i] = "/" /\ \A j \in 1..(i - 1) : s[j] # "/"
                  ELSE Len(s) + 1
         IN  <<SubSeq(s, 1, k - 1)>> \o PathOfStr(SubSeq(s, k + 1, Len(s)))

\* p.exists()
exists(d, p) == p \in d.dirs \/ p \in DOMAIN d.files

\* p and the directories above it
Ancestors(p) == {SubSeq(p, 1, k) : k \in 1..Len(p)}

\* p.mkdir(parents=True, exist_ok=True): raises when p or a directory above
\* it is a file
mkdir(d, p) ==
    IF \E a \in Ancestors(p) : a \in DOMAIN d.files
    THEN [exc |-> TRUE, disk |-> d]
    ELSE [exc |-> FALSE, disk |-> [d EXCEPT !.dirs = @ \cup Ancestors(p)]]

\* os.rename(src, dst) where nothing is at dst: the file or the tree at src
\* is at dst afterwards
Renamed(d, src, dst) ==
    LET to(p) == IF IsUnder(p, src) THEN dst \o RelParts(p, src) ELSE p
    IN  [dirs |-> {to(p) : p \in d.dirs},
         files |-> [q \in {to(p) : p \in DOMAIN d.files} |->
                        d.files[CHOOSE p \in DOMAIN d.files : to(p) = q]]]

\* shutil.move(str(src), str(dst)): into dst when dst is a directory, and
\* then an error when the name is taken there; a file replaces a file at
\* dst; a directory is not moved onto a file nor into itself
shutil_move(d, src, dst) ==
    LET into == dst \in d.dirs /\ dst # src
        real_dst == IF into THEN Append(dst, Name(src)) ELSE dst
        raised == [exc |-> TRUE, disk |-> d]
    IN  IF into /\ exists(d, real_dst) THEN raised
        ELSE IF ~exists(d, src) THEN raised
        ELSE IF src = real_dst THEN [exc |-> FALSE, disk |-> d]
        ELSE IF \E a \in Ancestors(Parent(real_dst)) : a \in DOMAIN d.files THEN raised
        ELSE IF src \in d.dirs
        THEN IF IsUnder(real_dst, src) \/ exists(d, real_dst) THEN raised
             ELSE [exc |-> FALSE,
                   disk |-> Renamed([d EXCEPT !.dirs = @ \cup Ancestors(Parent(real_dst))],
                                    src, real_dst)]
        ELSE IF Parent(real_dst) \notin d.dirs THEN raised
        ELSE [exc |-> FALSE,
              disk |-> Renamed([d EXCEPT !.files = [p \in DOMAIN d.files \ {real_dst} |->
                                                       d.files[p]]],
                               src, real_dst)]

\* _move_folder(source, dest)
_move_folder(d, source, dest) ==
    LET m == mkdir(d, Parent(dest))
    IN  IF m.exc THEN m
        ELSE shutil_move(m.disk, source,
                         IF exists(m.disk, dest)
                         THEN Join(Parent(dest), Name(dest) \o <<"_", "dup">>)
                         ELSE dest)

\* the loop of _move_story_group over the files left
RECURSIVE MoveFiles(_, _, _)
MoveFiles(d, files, dest_folder) ==
    IF files = << >> THEN [exc |-> FALSE, disk |-> d]
    ELSE LET target == Join(dest_folder, Name(Head(files)))
         IN  IF exists(d, target) THEN MoveFiles(d, Tail(files), dest_folder)
             ELSE LET r == shutil_move(d, Head(files), target)
                  IN  IF r.exc THEN r ELSE MoveFiles(r.disk, Tail(files), dest_folder)

\* _move_story_group(files, dest_folder)
_move_story_group(d, files, dest_folder) ==
    LET m == mkdir(d, dest_folder)
    IN  IF m.exc THEN m ELSE MoveFiles(m.disk, files, dest_folder)

\* the body of the loop of move_items for one item
MoveOne(d, item, dry_run) ==
    IF dry_run THEN [exc |-> FALSE, disk |-> d]
    ELSE IF item.is_folder_item
    THEN _move_folder(d, item.source_path, PathOfStr(item.destination_path))
    ELSE _move_story_group(d, item.source_files, PathOfStr(item.destination_path))

---------------------------------------------------------------------------

(* The source folders scanned: every tree of at most MaxEntries of the     *)
(* entries below, each with the directories above it, listed by the        *)
(* operating system in either order.                                       *)

MaxEntries == 3

SatRoot == << <<"SAT", " ", "Daily", " ", "on", " ", "2024", "-", "01", "-", "01">> >>

MoRoot == << <<"Daily", " ", "MO", " ", "on", " ", "2024", "-", "01", "-", "01">> >>

SatChecks == <<"SAT", " ", "Checks", " ", "-", " ", "TO", " ", "-", " ", "RTA">>

\* the three files of story abc of alice, and a file of the same
\* identifier named for bob on another day
RawFile ==
    <<"alice", "_", "story", "_", "2024", "01", "01", "_", "09", "45", "00", "_",
      "01", "_", "abc", "_", "raw", ".", "mp4">>

ShotFile ==
    <<"Alice", " ", "alice", "_", "story", "_", "2024", "01", "01", "_", "09", "45",
      "00", "_", "01", "_", "abc", "_", "screenshot", ".", "jpg">>

CapFile ==
    <<"alice", "_", "story", "_", "2024", "01", "01", "_", "09", "45", "00", "_",
      "01", "_", "abc", "_", "screencapture", ".", "png">>

BobFile ==
    <<"Bob", " ", "bob", "_", "story", "_", "2024", "03", "01", "_", "09", "45",
      "00", "_", "01", "_", "abc", "_", "raw", ".", "jpg">>

NotesFile == <<"notes", ".", "txt">>

PostFolder == <<"alice", "_", "IG", "_", "POST", "_", "2024", "01", "01", "_", "abc">>

ProfileFolder ==
    <<"IG", " ", "Profile", " ", "-", " ", "2024", "-", "01", "-", "01", " ", "-", " ",
      "Alice", " ", "-", " ", "@", "alice">>

CommentFolder ==
    <<"IG", " ", "Regular", " ", "Comment", " ", "-", " ", "2024", "-", "01", "-", "01",
      " ", "-", " ", "@", "alice">>

NamedFolder ==
    <<"IG", " ", "Stories", " ", "-", " ", "2024", "-", "01", "-", "01", " ", "-", " ",
      "Alice", " ", "-", " ", "alice">>

TxtFolder ==
    <<"IG", " ", "Stories", " ", "TXT", " ", "-", " ", "2024", "-", "01", "-", "01",
      " ", "-", " ", "@", "alice">>

ReshareAlice ==
    <<"IG", " ", "Reshare", " ", "-", " ", "2024", "-", "01", "-", "01", " ", "-", " ",
      "Alice", " ", "-", " ", "alice">>

ReshareBob ==
    <<"IG", " ", "Reshare", " ", "-", " ", "2024", "-", "01", "-", "01", " ", "-", " ",
      "Bob", " ", "-", " ", "bob">>

ProfileShot == <<"alice", "_", "profile", "_", "2024", "01", "01", ".", "png">>

VeFile ==
    <<"IG", " ", "VE", " ", "-", " ", "2024", "-", "01", "-", "01", " ", "-", " ",
      "Alice", " ", "-", " ", "alice", ".", "MP4">>

Batch1 == <<"Batch", " ", "1">>

Batch3 == <<"Batch", " ", "3">>

WpasAbc == <<"WPAS", " ", "ABC">>

File(p) == [path |-> p, dir |-> FALSE]

Dir(p) == [path |-> p, dir |-> TRUE]

\* entries of a SAT Daily folder, relative to it
SatEntries ==
    LET stories == <<SatChecks, <<"Stories">> >>
        pv == <<SatChecks, <<"P&V">> >>
        mo == <<SatChecks, <<"Additional">>, <<"MO">> >>
        wpas == stories \o <<Batch1, <<"Books">>, WpasAbc>>
        food == mo \o << <<"PW">>, <<"Food">> >>
    IN  { File(wpas \o <<RawFile>>), File(wpas \o <<ShotFile>>), File(wpas \o <<CapFile>>),
          File(stories \o <<Batch3, ShotFile>>), File(stories \o <<Batch3, CapFile>>),
          File(stories \o <<Batch3, BobFile>>),
          File(stories \o <<Batch1, NamedFolder, CapFile>>),
          File(stories \o <<Batch1, NamedFolder, NotesFile>>),
          File(stories \o <<Batch1, PostFolder, <<"media">>, RawFile>>),
          Dir(stories \o <<Batch3, PostFolder>>),
          Dir(stories \o <<Batch3, ProfileFolder>>),
          File(stories \o <<Batch3, CommentFolder, NotesFile>>),
          Dir(pv \o << <<"alice">>, PostFolder>>),
          File(pv \o << <<"alice">>, RawFile>>),
          File(food \o <<RawFile>>), File(food \o <<ShotFile>>),
          File(food \o << <<"Unlisted">>, CapFile>>),
          File(food \o <<TxtFolder, CapFile>>) }

\* entries of a Daily MO folder, relative to it
MoEntries ==
    { File(<< <<"Categories">>, <<"Books">>, RawFile>>),
      File(<< <<"Categories">>, <<"Food">>, ShotFile>>),
      File(<< <<"Reshares">>, ReshareAlice, <<"Books">>, <<"alice">>, ShotFile>>),
      File(<< <<"Reshares">>, ReshareBob, <<"Food">>, RawFile>>),
      Dir(<< <<"Reshares">>, ReshareBob, <<"Food">>, PostFolder>>),
      File(<< <<"Reshares">>, <<"Unlisted">>, <<"Food">>, CapFile>>),
      File(<< <<"Manual">>, NamedFolder, NotesFile>>),
      File(<< <<"Profile">>, ProfileShot>>),
      File(<< <<"VE">>, VeFile>>) }

EntriesOf(root) == IF root = SatRoot THEN SatEntries ELSE MoEntries

\* the sets of at most n of the entries U
RECURSIVE Layouts(_, _)
Layouts(U, n) ==
    IF n = 0 THEN {{}}
    ELSE LET less == Layouts(U, n - 1)
         IN  less \cup {S \cup {e} : S \in less, e \in U}

\* the file system holding root and, below it, the entries S
FsOf(root, S, desc) ==
    [dirs |-> {root} \cup {root \o e.path : e \in {x \in S : x.dir}}
                     \cup UNION {{root \o SubSeq(e.path, 1, k) : k \in 1..(Len(e.path) - 1)} :
                                 e \in S},
     files |-> {root \o e.path : e \in {x \in S : ~x.dir}},
     denied |-> {},
     json |-> << >>,
     desc |-> desc]

FileSystems(root) ==
    {FsOf(root, S, desc) : S \in Layouts(EntriesOf(root), MaxEntries), desc \in BOOLEAN}

---------------------------------------------------------------------------
(* Spec: one call of scan_folder on a source folder.                       *)

Init ==
    /\ source_dir \in {SatRoot, MoRoot}
    /\ fs \in FileSystems(source_dir)
    /\ pc = "ready"
    /\ items = << >>
    /\ section = ""
    /\ story_groups = << >>
    /\ pending = << >>
    /\ calls = << >>
    /\ arg = << >>
    /\ ret = << >>
    /\ disk = NoDisk
    /\ moved = << >>

\* items = scan_folder(source_dir), or the exception that escapes it
ScanFolder ==
    /\ pc = "ready"
    /\ \E r \in {scan_folder(fs, source_dir)} :
           /\ items' = IF r.exc = "none" THEN r.items ELSE items
           /\ pc' = IF r.exc = "none" THEN "done" ELSE "raised"
    /\ UNCHANGED <<fs, source_dir, section, story_groups, pending, calls, arg, ret, disk, moved>>

Next == ScanFolder

Spec == Init /\ [][Next]_vars

---------------------------------------------------------------------------
(* SpecAcc: the accumulator of one section of the scan, call by call of    *)
(* _add_to_story_group, and the conversion of its groups into records.     *)

\* the root directory of a section of the source folder
SectionDir(f, dir, sec) ==
    CASE sec = "stories" -> Append(SatChecksDir(f, dir), <<"Stories">>)
      [] sec = "mo" -> Append(Append(SatChecksDir(f, dir), <<"Additional">>), <<"MO">>)
      [] sec = "categories" -> Append(dir, <<"Categories">>)
      [] sec = "reshares" -> Append(dir, <<"Reshares">>)

\* the walk of a section, as scan_folder makes it
SectionWalk(f, dir, sec) ==
    Value({IF ~is_dir(f, root) THEN NewWalk
           ELSE CASE sec = "stories" -> StoriesWalk(f, root, downloader, today_str)
                  [] sec = "mo" -> MoWalk(f, root, downloader, today_str)
                  [] sec = "categories" -> CategoriesWalk(f, root, today_str)
                  [] sec = "reshares" -> ResharesWalk(f, root, today_str) :
           root \in {SectionDir(f, dir, sec)},
           downloader \in {detect_folder_type(f, dir)[2]}})

\* the conversion of a group of a section into its record
SectionGroupItem(f, dir, sec, group) ==
    Value({CASE sec = "stories" -> StoriesGroupItem(group, downloader, today_str)
             [] sec = "mo" ->
                    MoGroupItem(group, downloader, today_str, <<"sat_daily">>, <<"mo">>)
             [] sec = "categories" ->
                    MoGroupItem(group, << >>, today_str, <<"daily_mo">>, <<"categories">>)
             [] sec = "reshares" -> ResharesGroupItem(group, today_str) :
           downloader \in {detect_folder_type(f, dir)[2]}})

InitAcc ==
    /\ source_dir \in {SatRoot, MoRoot}
    /\ fs \in FileSystems(source_dir)
    /\ section \in (IF source_dir = SatRoot THEN {"stories", "mo"}
                    ELSE {"categories", "reshares"})
    /\ pending = SectionWalk(fs, source_dir, section).calls
    /\ pc = "staging"
    /\ items = << >>
    /\ story_groups = << >>
    /\ calls = << >>
    /\ arg = << >>
    /\ ret = << >>
    /\ disk = NoDisk
    /\ moved = << >>

\* the next call of _add_to_story_group of the walk
Stage ==
    /\ pc = "staging"
    /\ pending # << >>
    /\ LET c == Head(pending)
       IN  /\ story_groups' =
                  _add_to_story_group(c.file_path, c.parsed, c.root_dir, story_groups,
                                      c.mo_column, c.mo_value,
                                      c.resharer_username, c.resharer_name)
           /\ calls' = Append(calls, c)
    /\ pending' = Tail(pending)
    /\ UNCHANGED <<fs, source_dir, pc, items, section, arg, ret, disk, moved>>

\* the loop that converts the story groups, after the walk
Finalize ==
    /\ pc = "staging"
    /\ pending = << >>
    /\ \E exc \in {SectionWalk(fs, source_dir, section).exc} :
           /\ pc' = IF exc = "none" THEN "done" ELSE "raised"
           /\ items' = IF exc = "none"
                       THEN [i \in 1..Len(story_groups) |->
                                SectionGroupItem(fs, source_dir, section, story_groups[i])]
                       ELSE items
    /\ UNCHANGED <<fs, source_dir, section, story_groups, pending, calls, arg, ret, disk, moved>>

NextAcc == Stage \/ Finalize

SpecAcc == InitAcc /\ [][NextAcc]_vars

---------------------------------------------------------------------------
(* SpecGroups: the accumulator of a section whose story files are of two   *)
(* identifiers, abc and xyz, in several directories.                       *)

XyzRawFile ==
    <<"bob", "_", "story", "_", "2024", "03", "01", "_", "09", "45", "00", "_",
      "01", "_", "xyz", "_", "raw", ".", "png">>

XyzShotFile ==
    <<"Bob", " ", "bob", "_", "story", "_", "2024", "03", "01", "_", "09", "45",
      "00", "_", "01", "_", "xyz", "_", "screenshot", ".", "jpg">>

GroupSatEntries ==
    LET stories == <<SatChecks, <<"Stories">> >>
        food == <<SatChecks, <<"Additional">>, <<"MO">>, <<"PW">>, <<"Food">> >>
    IN  { File(stories \o <<Batch1, <<"Books">>, WpasAbc, XyzRawFile>>),
          File(stories \o <<Batch1, RawFile>>),
          File(stories \o <<Batch3, ShotFile>>),
          File(stories \o <<Batch3, XyzShotFile>>),
          File(stories \o <<Batch3, NamedFolder, CapFile>>),
          File(food \o <<RawFile>>),
          File(food \o <<XyzShotFile>>),
          File(food \o <<TxtFolder, CapFile>>) }

GroupMoEntries ==
    { File(<< <<"Categories">>, <<"Books">>, RawFile>>),
      File(<< <<"Categories">>, <<"Books">>, XyzShotFile>>),
      File(<< <<"Categories">>, <<"Food">>, ShotFile>>),
      File(<< <<"Reshares">>, ReshareAlice, <<"Books">>, <<"alice">>, ShotFile>>),
      File(<< <<"Reshares">>, ReshareAlice, <<"Books">>, <<"alice">>, XyzRawFile>>),
      File(<< <<"Reshares">>, ReshareBob, <<"Food">>, RawFile>>),
      File(<< <<"Reshares">>, ReshareBob, <<"Food">>, XyzShotFile>>) }

GroupFileSystems(root) ==
    {FsOf(root, S, desc) :
        S \in Layouts(IF root = SatRoot THEN GroupSatEntries ELSE GroupMoEntries,
                      MaxEntries),
        desc \in BOOLEAN}

InitGroups ==
    /\ source_dir \in {SatRoot, MoRoot}
    /\ fs \in GroupFileSystems(source_dir)
    /\ section \in (IF source_dir = SatRoot THEN {"stories", "mo"}
                    ELSE {"categories", "reshares"})
    /\ pending = SectionWalk(fs, source_dir, section).calls
    /\ pc = "staging"
    /\ items = << >>
    /\ story_groups = << >>
    /\ calls = << >>
    /\ arg = << >>
    /\ ret = << >>
    /\ disk = NoDisk
    /\ moved = << >>

SpecGroups == InitGroups /\ [][NextAcc]_vars

---------------------------------------------------------------------------
(* SpecDenied: one call of scan_folder on a source folder one directory of *)
(* which cannot be listed.                                                 *)

DeniedSatEntries ==
    LET stories == <<SatChecks, <<"Stories">> >>
        pv == <<SatChecks, <<"P&V">> >>
        food == <<SatChecks, <<"Additional">>, <<"MO">>, <<"PW">>, <<"Food">> >>
    IN  { File(stories \o <<Batch1, PostFolder, <<"media">>, RawFile>>),
          File(stories \o <<Batch1, NamedFolder, NotesFile>>),
          File(stories \o <<Batch3, ShotFile>>),
          Dir(pv \o << <<"alice">>, PostFolder>>),
          Dir(pv \o << <<"bob">>, PostFolder>>),
          File(food \o <<RawFile>>),
          File(food \o <<TxtFolder, CapFile>>) }

DeniedMoEntries ==
    { File(<< <<"Categories">>, <<"Books">>, RawFile>>),
      File(<< <<"Categories">>, <<"Food">>, PostFolder, NotesFile>>),
      File(<< <<"Reshares">>, ReshareAlice, <<"Books">>, <<"alice">>, ShotFile>>),
      Dir(<< <<"Reshares">>, ReshareBob, <<"Food">>, PostFolder>>),
      File(<< <<"Manual">>, NamedFolder, NotesFile>>),
      File(<< <<"Profile">>, ProfileShot>>),
      File(<< <<"VE">>, VeFile>>) }

DeniedFileSystems(root) ==
    {[g EXCEPT !.denied = {d}] :
        g \in {FsOf(root, S, FALSE) :
                  S \in Layouts(IF root = SatRoot THEN DeniedSatEntries
                                ELSE DeniedMoEntries, MaxEntries)},
        d \in UNION {{root \o SubSeq(e.path, 1, k) : k \in 0..Len(e.path)} :
                       e \in (IF root = SatRoot THEN DeniedSatEntries
                              ELSE DeniedMoEntries)}}

InitDenied ==
    /\ source_dir \in {SatRoot, MoRoot}
    /\ fs \in {g \in DeniedFileSystems(source_dir) : g.denied \subseteq g.dirs}
    /\ pc = "ready"
    /\ items = << >>
    /\ section = ""
    /\ story_groups = << >>
    /\ pending = << >>
    /\ calls = << >>
    /\ arg = << >>
    /\ ret = << >>
    /\ disk = NoDisk
    /\ moved = << >>

SpecDenied == InitDenied /\ [][Next]_vars

---------------------------------------------------------------------------
(* SpecMeta: one call of scan_folder on a source folder that holds one     *)
(* post folder, with or without a metadata file in it.                     *)

CollabFolder == PostFolder \o <<"_", "collab", "_", "bob">>

PairedFolder == PostFolder \o <<" ", "-", " ", "PAIRED">>

MetaFile == <<"abc", "_", "metadata", ".", "json">>

XyzMetaFile == <<"xyz", "_", "metadata", ".", "json">>

\* what the metadata file of the path p holds: each file its own post
MetaContentOf(p) ==
    [kind |-> "object",
     data |-> IF Name(p) = MetaFile
              THEN [username |-> <<"alice">>, full_name |-> <<"Alice">>,
                    shortcode |-> <<"abc">>, posted_at |-> << >>,
                    collaborators |-> << >>]
              ELSE [username |-> <<"bob">>, full_name |-> <<"Bob">>,
                    shortcode |-> <<"xyz">>, posted_at |-> << >>,
                    collaborators |-> << >>]]

\* the file system g, its metadata files holding their posts
WithMetadata(g) ==
    [g EXCEPT !.json = [p \in {q \in g.files : Name(q) \in {MetaFile, XyzMetaFile}} |->
                           MetaContentOf(p)]]

\* where a section scanner builds a post folder's record
MetaParents(root) ==
    IF root = SatRoot
    THEN { <<SatChecks, <<"Stories">>, Batch1>>,
           <<SatChecks, <<"P&V">>, <<"alice">> >> }
    ELSE { << <<"Categories">>, <<"Food">> >>,
           << <<"Reshares">>, ReshareAlice, <<"Books">> >> }

\* the contents of a metadata file: what open() and json.load() make of it
MetaContents ==
    {[kind |-> k, data |-> << >>] : k \in {"unreadable", "invalid", "nonobject"}}
    \cup
    {[kind |-> "object",
      data |-> [username |-> u, full_name |-> <<"Bob">>, shortcode |-> s,
                posted_at |-> d, collaborators |-> c]] :
        u \in {<< >>, <<"bob">>},
        s \in {<< >>, <<"xyz">>},
        d \in {<< >>, <<"2024">>,
               <<"2024", "-", "03", "-", "01", "T", "09", ":", "45", ":", "00">>},
        c \in {<< >>, << <<"xyz">> >>, << <<"xyz">>, <<"alice">> >>}}

MetaFileSystems(root) ==
    {[FsOf(root, {Dir(parent \o <<folder>>)}, FALSE) EXCEPT !.json = << >>] :
        parent \in MetaParents(root), folder \in {PostFolder, PairedFolder, CollabFolder}}
    \cup
    {[FsOf(root, {File(parent \o <<folder, MetaFile>>)}, FALSE) EXCEPT
         !.json = [p \in {root \o parent \o <<folder, MetaFile>>} |-> content]] :
        parent \in MetaParents(root), folder \in {PostFolder, PairedFolder, CollabFolder},
        content \in MetaContents}

InitMeta ==
    /\ source_dir \in {SatRoot, MoRoot}
    /\ fs \in MetaFileSystems(source_dir)
    /\ pc = "ready"
    /\ items = << >>
    /\ section = ""
    /\ story_groups = << >>
    /\ pending = << >>
    /\ calls = << >>
    /\ arg = << >>
    /\ ret = << >>
    /\ disk = NoDisk
    /\ moved = << >>

SpecMeta == InitMeta /\ [][Next]_vars

---------------------------------------------------------------------------
(* SpecHidden: one call of scan_folder on a source folder that holds files *)
(* and directories whose names start with a dot.                           *)

HiddenRawFile == <<".">> \o RawFile

HiddenDir == <<".", "media">>

HiddenSatEntries ==
    LET stories == <<SatChecks, <<"Stories">>, Batch1>>
        food == <<SatChecks, <<"Additional">>, <<"MO">>, <<"PW">>, <<"Food">> >>
    IN  { File(stories \o <<HiddenRawFile>>),
          File(stories \o <<ShotFile>>),
          File(stories \o <<NamedFolder, HiddenRawFile>>),
          File(stories \o <<NamedFolder, NotesFile>>),
          File(stories \o <<HiddenDir, RawFile>>),
          File(stories \o <<PostFolder, HiddenDir, NotesFile>>),
          File(food \o <<TxtFolder, HiddenRawFile>>),
          File(food \o <<HiddenRawFile>>) }

HiddenMoEntries ==
    { File(<< <<"Categories">>, <<"Food">>, HiddenRawFile>>),
      File(<< <<"Categories">>, <<"Food">>, ShotFile>>),
      File(<< <<"Categories">>, <<"Food">>, NamedFolder, HiddenRawFile>>),
      File(<< <<"Categories">>, <<"Food">>, NamedFolder, NotesFile>>),
      File(<< <<"Reshares">>, ReshareAlice, <<"Books">>, HiddenRawFile>>),
      File(<< <<"Reshares">>, ReshareAlice, <<"Books">>, HiddenDir, RawFile>>),
      File(<< <<"Manual">>, NamedFolder, HiddenRawFile>>),
      File(<< <<"Profile">>, <<".">> \o ProfileShot>>) }

HiddenFileSystems(root) ==
    {FsOf(root, S, desc) :
        S \in Layouts(IF root = SatRoot THEN HiddenSatEntries ELSE HiddenMoEntries,
                      MaxEntries),
        desc \in BOOLEAN}

InitHidden ==
    /\ source_dir \in {SatRoot, MoRoot}
    /\ fs \in HiddenFileSystems(source_dir)
    /\ pc = "ready"
    /\ items = << >>
    /\ section = ""
    /\ story_groups = << >>
    /\ pending = << >>
    /\ calls = << >>
    /\ arg = << >>
    /\ ret = << >>
    /\ disk = NoDisk
    /\ moved = << >>

SpecHidden == InitHidden /\ [][Next]_vars

---------------------------------------------------------------------------
(* SpecNamed: one call of scan_folder on a source folder that holds named  *)
(* story folders and stories-TXT folders, with and without story files.    *)

NamedSatEntries ==
    LET stories == <<SatChecks, <<"Stories">>, Batch1>>
        food == <<SatChecks, <<"Additional">>, <<"MO">>, <<"PW">>, <<"Food">> >>
    IN  { File(stories \o <<NamedFolder, RawFile>>),
          File(stories \o <<NamedFolder, NotesFile>>),
          File(stories \o <<NamedFolder, <<"media">>, ShotFile>>),
          File(stories \o <<TxtFolder, CapFile>>),
          Dir(stories \o <<TxtFolder>>),
          File(food \o <<NamedFolder, RawFile>>),
          File(food \o <<NamedFolder, NotesFile>>),
          File(food \o <<TxtFolder, <<"media">>, ShotFile>>) }

NamedMoEntries ==
    { File(<< <<"Categories">>, <<"Food">>, NamedFolder, RawFile>>),
      File(<< <<"Categories">>, <<"Food">>, NamedFolder, NotesFile>>),
      File(<< <<"Categories">>, <<"Books">>, TxtFolder, CapFile>>),
      Dir(<< <<"Categories">>, <<"Books">>, TxtFolder>>),
      File(<< <<"Manual">>, NamedFolder, RawFile>>),
      File(<< <<"Manual">>, NamedFolder, NotesFile>>),
      File(<< <<"Manual">>, TxtFolder, <<"media">>, ShotFile>>),
      Dir(<< <<"Manual">>, TxtFolder>>) }

NamedFileSystems(root) ==
    {FsOf(root, S, desc) :
        S \in Layouts(IF root = SatRoot THEN NamedSatEntries ELSE NamedMoEntries,
                      MaxEntries),
        desc \in BOOLEAN}

InitNamed ==
    /\ source_dir \in {SatRoot, MoRoot}
    /\ fs \in NamedFileSystems(source_dir)
    /\ pc = "ready"
    /\ items = << >>
    /\ section = ""
    /\ story_groups = << >>
    /\ pending = << >>
    /\ calls = << >>
    /\ arg = << >>
    /\ ret = << >>
    /\ disk = NoDisk
    /\ moved = << >>

SpecNamed == InitNamed /\ [][Next]_vars

---------------------------------------------------------------------------
(* SpecContext: one call of parse_sat_daily_stories_context on the names   *)
(* between the Stories directory and a directory or file below it.         *)

MaxDepth == 5

ContextNames ==
    {Batch1, <<"Books">>, WpasAbc, <<"Advanced">>, NamedFolder, RawFile}

\* the tuples of at most n names of S
RelPartsUpTo(S, n) == UNION {[1..k -> S] : k \in 0..n}

InitContext ==
    /\ source_dir = SatRoot
    /\ fs = FsOf(SatRoot, {}, FALSE)
    /\ pc = "ready"
    /\ items = << >>
    /\ section = ""
    /\ story_groups = << >>
    /\ pending = << >>
    /\ calls = << >>
    /\ arg \in RelPartsUpTo(ContextNames, MaxDepth)
    /\ ret = << >>
    /\ disk = NoDisk
    /\ moved = << >>

\* ret = parse_sat_daily_stories_context(arg)
ParseContext ==
    /\ pc = "ready"
    /\ ret' = parse_sat_daily_stories_context(arg)
    /\ pc' = "done"
    /\ UNCHANGED <<fs, source_dir, items, section, story_groups, pending, calls, arg, disk, moved>>

NextContext == ParseContext

SpecContext == InitContext /\ [][NextContext]_vars

---------------------------------------------------------------------------
(* SpecNames: the folder recognizers of the walkers, tried on one name.    *)

MaxParts == 4

\* the pieces the folder names of the archive are made of
NameParts ==
    { <<"IG", " ", "Profile", " ", "-", " ", "2024", "-", "01", "-", "01", " ", "-", " ",
        "Alice", " ", "-", " ", "@">>,
      <<"IG", " ", "Stories", " ", "-", " ", "2024", "-", "01", "-", "01", " ", "-", " ",
        "Alice", " ", "-", " ">>,
      <<"IG", " ", "Reshare", " ", "-", " ", "2024", "-", "01", "-", "01", " ", "-", " ",
        "Alice", " ", "-", " ">>,
      <<"IG", " ", "Stories", " ", "TXT", " ", "-", " ", "2024", "-", "01", "-", "01",
        " ", "-", " ", "@">>,
      <<"IG", " ", "Regular", " ", "Comment", " ", "TO", " ", "-", " ",
        "2024", "-", "01", "-", "01", " ", "-", " ", "@">>,
      <<"alice">>,
      <<"_", "IG", "_", "POST", "_", "2024", "01", "01", "_">>,
      <<"abc">>,
      <<" ", "-", " ", "PAIRED">> }

\* the names made of at most n pieces
RECURSIVE NamesOf(_)
NamesOf(n) ==
    IF n = 0 THEN {<< >>}
    ELSE LET less == NamesOf(n - 1)
         IN  less \cup {s \o p : s \in less, p \in NameParts}

\* the recognizers whose expression matches the name: the tests of the
\* if chain, each taken alone
Recognizers(name) ==
    {r \in {"post", "profile", "comment", "named_story", "stories_txt", "reshare"} :
        CASE r = "post" -> Match(POST_FOLDER_RE, 3, name).ok
          [] r = "profile" -> Match(PROFILE_FOLDER_RE, 3, name).ok
          [] r = "comment" -> Match(COMMENT_FOLDER_RE, 2, name).ok
          [] r = "named_story" -> Match(NAMED_STORY_FOLDER_RE, 3, name).ok
          [] r = "stories_txt" -> Match(STORIES_TXT_FOLDER_RE, 2, name).ok
          [] r = "reshare" -> Match(RESHARE_FOLDER_RE, 3, name).ok}

InitNames ==
    /\ source_dir = SatRoot
    /\ fs = FsOf(SatRoot, {}, FALSE)
    /\ pc = "ready"
    /\ items = << >>
    /\ section = ""
    /\ story_groups = << >>
    /\ pending = << >>
    /\ calls = << >>
    /\ arg \in NamesOf(MaxParts)
    /\ ret = << >>
    /\ disk = NoDisk
    /\ moved = << >>

\* ret = the recognizers that match arg
Classify ==
    /\ pc = "ready"
    /\ ret' = Recognizers(arg)
    /\ pc' = "done"
    /\ UNCHANGED <<fs, source_dir, items, section, story_groups, pending, calls, arg, disk, moved>>

NextNames == Classify

SpecNames == InitNames /\ [][NextNames]_vars

---------------------------------------------------------------------------
(* SpecDates: one call of scan_folder on a source folder that holds        *)
(* content of every kind, the dates of the names in the forms the name     *)
(* patterns admit.                                                         *)

\* IG VE - 20240101 - Alice - alice.MP4
VeFileCompact ==
    <<"IG", " ", "VE", " ", "-", " ", "2024", "01", "01", " ", "-", " ",
      "Alice", " ", "-", " ", "alice", ".", "MP4">>

DateSatEntries ==
    LET stories == <<SatChecks, <<"Stories">>, Batch1>>
    IN  { File(stories \o <<RawFile>>),
          Dir(stories \o <<PostFolder>>),
          Dir(stories \o <<ProfileFolder>>),
          Dir(stories \o <<CommentFolder>>),
          Dir(stories \o <<NamedFolder>>),
          Dir(stories \o <<TxtFolder>>),
          Dir(<<SatChecks, <<"P&V">>, <<"alice">>, PostFolder>>),
          File(<<SatChecks, <<"P&V">>, <<"bob">>, PostFolder, XyzMetaFile>>) }

DateMoEntries ==
    { File(<< <<"Categories">>, <<"Food">>, RawFile>>),
      File(<< <<"Reshares">>, ReshareBob, <<"Food">>, PostFolder, XyzMetaFile>>),
      File(<< <<"Reshares">>, ReshareBob, <<"Food">>, BobFile>>),
      Dir(<< <<"Categories">>, <<"Food">>, PostFolder>>),
      Dir(<< <<"Manual">>, NamedFolder>>),
      File(<< <<"Profile">>, ProfileShot>>),
      File(<< <<"VE">>, VeFile>>),
      File(<< <<"VE">>, VeFileCompact>>) }

DateFileSystems(root) ==
    {WithMetadata(FsOf(root, S, FALSE)) :
        S \in Layouts(IF root = SatRoot THEN DateSatEntries ELSE DateMoEntries,
                      MaxEntries)}

InitDates ==
    /\ source_dir \in {SatRoot, MoRoot}
    /\ fs \in DateFileSystems(source_dir)
    /\ pc = "ready"
    /\ items = << >>
    /\ section = ""
    /\ story_groups = << >>
    /\ pending = << >>
    /\ calls = << >>
    /\ arg = << >>
    /\ ret = << >>
    /\ disk = NoDisk
    /\ moved = << >>

SpecDates == InitDates /\ [][Next]_vars

---------------------------------------------------------------------------
(* SpecOrder: one call of scan_folder on a source folder whose folders     *)
(* hold several files, listed by the operating system in either order.     *)

OrderSatEntries ==
    LET stories == <<SatChecks, <<"Stories">>, Batch1>>
        pv == <<SatChecks, <<"P&V">>, <<"alice">> >>
    IN  { File(stories \o <<PostFolder, MetaFile>>),
          File(stories \o <<PostFolder, XyzMetaFile>>),
          File(stories \o <<PostFolder, <<"media">>, RawFile>>),
          File(stories \o <<NamedFolder, NotesFile>>),
          File(stories \o <<NamedFolder, <<"media">>, ShotFile>>),
          File(stories \o <<RawFile>>),
          File(stories \o <<ShotFile>>),
          File(pv \o <<PostFolder, <<"media">>, MetaFile>>),
          File(pv \o <<PostFolder, NotesFile>>) }

OrderMoEntries ==
    { File(<< <<"Categories">>, <<"Food">>, PostFolder, MetaFile>>),
      File(<< <<"Categories">>, <<"Food">>, PostFolder, XyzMetaFile>>),
      File(<< <<"Categories">>, <<"Food">>, RawFile>>),
      File(<< <<"Categories">>, <<"Food">>, ShotFile>>),
      File(<< <<"Manual">>, NamedFolder, NotesFile>>),
      File(<< <<"Manual">>, NamedFolder, RawFile>>),
      File(<< <<"Profile">>, ProfileShot>>),
      File(<< <<"VE">>, VeFile>>) }

OrderFileSystems(root) ==
    {WithMetadata(g) :
        g \in {FsOf(root, S, desc) :
                  S \in Layouts(IF root = SatRoot THEN OrderSatEntries ELSE OrderMoEntries,
                                MaxEntries),
                  desc \in BOOLEAN}}

InitOrder ==
    /\ source_dir \in {SatRoot, MoRoot}
    /\ fs \in OrderFileSystems(source_dir)
    /\ pc = "ready"
    /\ items = << >>
    /\ section = ""
    /\ story_groups = << >>
    /\ pending = << >>
    /\ calls = << >>
    /\ arg = << >>
    /\ ret = << >>
    /\ disk = NoDisk
    /\ moved = << >>

SpecOrder == InitOrder /\ [][Next]_vars

---------------------------------------------------------------------------
(* SpecFolders: one call of scan_folder on a source folder that holds      *)
(* profile, comment-thread, named-story and stories-TXT folders, their     *)
(* names with and without a display name, and reshare folders in Manual.   *)

\* IG Regular Comment - 2024-01-01 - Alice - @alice
CommentFolderNamed ==
    <<"IG", " ", "Regular", " ", "Comment", " ", "-", " ", "2024", "-", "01", "-", "01",
      " ", "-", " ", "Alice", " ", "-", " ", "@", "alice">>

\* IG Stories TXT - 2024-01-01 - Alice - @alice
TxtFolderNamed ==
    <<"IG", " ", "Stories", " ", "TXT", " ", "-", " ", "2024", "-", "01", "-", "01",
      " ", "-", " ", "Alice", " ", "-", " ", "@", "alice">>

DisplayFolders ==
    {ProfileFolder, CommentFolder, CommentFolderNamed, NamedFolder, TxtFolder,
     TxtFolderNamed}

FolderSatEntries ==
    {Dir(<<SatChecks, <<"Stories">>, Batch1, folder>>) : folder \in DisplayFolders}
    \cup {File(<<SatChecks, <<"Stories">>, Batch3, folder, NotesFile>>) :
             folder \in DisplayFolders}
    \cup {Dir(<<SatChecks, <<"Additional">>, <<"MO">>, <<"PW">>, <<"Food">>, folder>>) :
             folder \in {ProfileFolder, NamedFolder, TxtFolderNamed}}

FolderMoEntries ==
    {Dir(<< <<"Categories">>, <<"Food">>, folder>>) :
        folder \in {ProfileFolder, NamedFolder, TxtFolder, TxtFolderNamed}}
    \cup {Dir(<< <<"Manual">>, folder>>) : folder \in {NamedFolder, TxtFolder, TxtFolderNamed}}
    \cup {Dir(<< <<"Manual">>, ReshareAlice>>), File(<< <<"Manual">>, ReshareBob, NotesFile>>)}

FolderFileSystems(root) ==
    {FsOf(root, S, FALSE) :
        S \in Layouts(IF root = SatRoot THEN FolderSatEntries ELSE FolderMoEntries,
                      MaxEntries)}

InitFolders ==
    /\ source_dir \in {SatRoot, MoRoot}
    /\ fs \in FolderFileSystems(source_dir)
    /\ pc = "ready"
    /\ items = << >>
    /\ section = ""
    /\ story_groups = << >>
    /\ pending = << >>
    /\ calls = << >>
    /\ arg = << >>
    /\ ret = << >>
    /\ disk = NoDisk
    /\ moved = << >>

SpecFolders == InitFolders /\ [][Next]_vars

---------------------------------------------------------------------------
(* SpecPass: one call of scan_folder on a SAT Daily folder whose Stories   *)
(* tree holds story-collection folders with loose story files, one to four *)
(* directories below the Stories directory.                                *)

PassEntries ==
    LET stories == <<SatChecks, <<"Stories">> >>
    IN  UNION {{File(stories \o above \o <<folder, file>>) :
                  folder \in {NamedFolder, TxtFolder},
                  file \in {RawFile, XyzRawFile}} :
               above \in {<<Batch1>>,
                          <<Batch1, <<"Books">> >>,
                          <<Batch1, <<"Books">>, WpasAbc>>,
                          <<Batch1, <<"Books">>, WpasAbc, <<"Advanced">> >>}}

PassFileSystems ==
    {FsOf(SatRoot, S, desc) : S \in Layouts(PassEntries, MaxEntries), desc \in BOOLEAN}

InitPass ==
    /\ source_dir = SatRoot
    /\ fs \in PassFileSystems
    /\ pc = "ready"
    /\ items = << >>
    /\ section = ""
    /\ story_groups = << >>
    /\ pending = << >>
    /\ calls = << >>
    /\ arg = << >>
    /\ ret = << >>
    /\ disk = NoDisk
    /\ moved = << >>

SpecPass == InitPass /\ [][Next]_vars

---------------------------------------------------------------------------
(* SpecMove: one call of move_items on the records of a scan of a SAT      *)
(* Daily folder, turn by turn of its loop, on a disk that holds the        *)
(* scanned folder and an archive in which an earlier run may have left     *)
(* folders and files.                                                      *)

MoveEntries ==
    LET stories == <<SatChecks, <<"Stories">> >>
        pv == <<SatChecks, <<"P&V">> >>
        food == <<SatChecks, <<"Additional">>, <<"MO">>, <<"PW">>, <<"Food">> >>
    IN  { File(stories \o <<Batch1, PostFolder, NotesFile>>),
          File(stories \o <<Batch3, PostFolder, NotesFile>>),
          File(pv \o << <<"alice">>, PostFolder, NotesFile>>),
          File(stories \o <<Batch1, RawFile>>),
          File(stories \o <<Batch1, ShotFile>>),
          File(food \o <<RawFile>>) }

MoveFileSystems ==
    {FsOf(SatRoot, S, desc) : S \in Layouts(MoveEntries, MaxEntries), desc \in BOOLEAN}

\* files an earlier run may have left in the archive
ArchiveEntries ==
    LET alice == Join(ARCHIVE_ROOT, <<"alice">>)
        dup == PostFolder \o <<"_", "dup">>
    IN  { alice \o <<PostFolder, NotesFile>>,
          alice \o <<dup, NotesFile>>,
          alice \o <<dup, PostFolder, NotesFile>>,
          alice \o << <<"alice", "_", "story", "_", "abc">>, RawFile>> }

\* the disk that holds the scanned folder f and the archive files A
DiskOf(f, A) ==
    [dirs |-> f.dirs \cup Ancestors(Parent(ARCHIVE_ROOT))
                     \cup UNION {Ancestors(Parent(p)) : p \in A},
     files |-> [p \in f.files \cup A |-> p]]

InitMove ==
    /\ source_dir = SatRoot
    /\ fs \in MoveFileSystems
    /\ pc = "moving"
    /\ items = scan_folder(fs, source_dir).items
    /\ section = ""
    /\ story_groups = << >>
    /\ pending = items
    /\ calls = << >>
    /\ arg \in {[dry_run |-> b] : b \in BOOLEAN}
    /\ ret = [success |-> 0, errors |-> 0]
    /\ disk \in {DiskOf(fs, A) : A \in SUBSET ArchiveEntries}
    /\ moved = << >>

\* one turn of the loop of move_items
MoveItem ==
    /\ pc = "moving"
    /\ pending # << >>
    /\ \E r \in {MoveOne(disk, Head(pending), arg.dry_run)} :
           /\ disk' = r.disk
           /\ ret' = IF r.exc THEN [ret EXCEPT !.errors = @ + 1]
                              ELSE [ret EXCEPT !.success = @ + 1]
           /\ moved' = Append(moved, ~r.exc)
    /\ pending' = Tail(pending)
    /\ UNCHANGED <<fs, source_dir, pc, items, section, story_groups, calls, arg>>

\* return success, errors
ReturnCounts ==
    /\ pc = "moving"
    /\ pending = << >>
    /\ pc' = "done"
    /\ UNCHANGED <<fs, source_dir, items, section, story_groups, pending, calls, arg,
                   ret, disk, moved>>

NextMove == MoveItem \/ ReturnCounts

SpecMove == InitMove /\ [][NextMove]_vars

---------------------------------------------------------------------------
(* Properties of one scan (Spec).                                          *)

\* the Stories, P&V and Additional/MO directories of a SAT Daily folder
StoriesRoot == Append(SatChecksDir(fs, source_dir), <<"Stories">>)

PvRoot == Append(SatChecksDir(fs, source_dir), <<"P&V">>)

MoSectionRoot == Append(Append(SatChecksDir(fs, source_dir), <<"Additional">>), <<"MO">>)

\* the sections of the source folder in which story files are looked for:
\* the root directory and the content_section of the section's records
StorySections ==
    IF source_dir = SatRoot
    THEN {[root |-> StoriesRoot, sec |-> <<"stories">>],
          [root |-> PvRoot, sec |-> <<"pv">>],
          [root |-> MoSectionRoot, sec |-> <<"mo">>]}
    ELSE {[root |-> Append(source_dir, <<"Categories">>), sec |-> <<"categories">>],
          [root |-> Append(source_dir, <<"Reshares">>), sec |-> <<"reshares">>]}

\* C1: in the list returned by one scan_folder call no two records have the
\* same shortcode.
C1_UniqueShortcodes ==
    pc = "done" =>
        \A i, j \in 1..Len(items) : i # j => items[i].shortcode # items[j].shortcode

\* C2: in the list returned by one scan_folder call no file path is in the
\* source_files of two records, and none is twice in the source_files of one.
C2_ExclusiveFiles ==
    pc = "done" =>
        \A i, j \in 1..Len(items) :
            \A a \in 1..Len(items[i].source_files), b \in 1..Len(items[j].source_files) :
                (i # j \/ a # b) => items[i].source_files[a] # items[j].source_files[b]

\* a scan that returned a folder record and a story record, each owning files
C2_FolderAndStoryRecords ==
    /\ pc = "done"
    /\ \E i, j \in 1..Len(items) :
           /\ items[i].is_folder_item /\ items[i].source_files # << >>
           /\ ~items[j].is_folder_item /\ Len(items[j].source_files) >= 2

\* the files below root named as story files of identifier id in the given role
StoryFilesBelow(root, id, role) ==
    {p \in fs.files :
        /\ IsUnder(p, root)
        /\ parse_story_filename(Name(p)).ok
        /\ parse_story_filename(Name(p)).shortcode = id
        /\ parse_story_filename(Name(p)).suffix = role}

\* the identifiers of the story files of the file system
StoryIds ==
    {parse_story_filename(Name(p)).shortcode :
        p \in {q \in fs.files : parse_story_filename(Name(q)).ok}}

\* C3: three story files of one identifier in the roles raw, screencapture
\* and screenshot, in any directories below one section root: the scan of
\* the section yields exactly one record of that identifier, which owns the
\* three files.
C3_OneRecordOwnsTheThree ==
    pc = "done" =>
        \A s \in StorySections : \A id \in StoryIds :
            \A raw \in StoryFilesBelow(s.root, id, <<"raw">>),
               cap \in StoryFilesBelow(s.root, id, <<"screencapture">>),
               shot \in StoryFilesBelow(s.root, id, <<"screenshot">>) :
                /\ Cardinality({i \in 1..Len(items) :
                                   items[i].content_section = s.sec
                                   /\ items[i].shortcode = id}) = 1
                /\ \E i \in 1..Len(items) :
                       /\ items[i].content_section = s.sec
                       /\ items[i].shortcode = id
                       /\ {raw, cap, shot} \subseteq Range(items[i].source_files)

\* the record fields the category table names
CategoryFields == {STORY_CATEGORY_TO_COLUMN[c] : c \in DOMAIN STORY_CATEGORY_TO_COLUMN}

\* item is a story record of the Stories section whose files all lie in
\* one directory <batch>/<category>/WPAS <code> below the Stories root,
\* <category> a key of the table
InWpasDirectory(item) ==
    /\ source_dir = SatRoot
    /\ item.content_section = <<"stories">>
    /\ ~item.is_folder_item
    /\ item.source_files # << >>
    /\ \A k \in 1..Len(item.source_files) :
           Parent(item.source_files[k]) = Parent(item.source_files[1])
    /\ IsUnder(Parent(item.source_files[1]), StoriesRoot)
    /\ LET rel == RelParts(Parent(item.source_files[1]), StoriesRoot)
       IN  /\ Len(rel) = 3
           /\ rel[2] \in DOMAIN STORY_CATEGORY_TO_COLUMN
           /\ Len(rel[3]) >= 3
           /\ rel[3][1] = "WPAS" /\ rel[3][2] = " " /\ rel[3][3] # " "

\* C4: the record of a story group whose files lie in the directory
\* <batch>/<category>/WPAS <code> of the Stories section, <category> in the
\* category table: post_type Story, batch <batch>, wpas_code <code>, the
\* field the table names for <category> holds <code> and every other
\* category field is empty, username and shortcode are those of a file
\* name of the group and post_date its date as YYYY-MM-DD.
C4_WpasDirectoryRecord ==
    pc = "done" =>
        \A i \in 1..Len(items) :
            InWpasDirectory(items[i]) =>
                LET rel == RelParts(Parent(items[i].source_files[1]), StoriesRoot)
                    code == SubSeq(rel[3], 3, Len(rel[3]))
                    field == STORY_CATEGORY_TO_COLUMN[rel[2]]
                IN  /\ items[i].post_type = <<"Story">>
                    /\ items[i].batch = rel[1]
                    /\ items[i].wpas_code = code
                    /\ items[i][field] = code
                    /\ \A c \in CategoryFields \ {field} : items[i][c] = << >>
                    /\ \E k \in 1..Len(items[i].source_files) :
                           LET m == Match(STORY_FILE_RE, 7, Name(items[i].source_files[k]))
                           IN  /\ m.ok
                               /\ items[i].shortcode = m.g[5]
                               /\ items[i].username =
                                      extract_username_from_story_prefix(m.g[1])
                               /\ items[i].post_date =
                                      <<m.g[2][1], "-", m.g[2][2], "-", m.g[2][3]>>

\* a scan that returned the record of a story group of two files or more
\* in a WPAS directory
C4_WpasDirectoryScanned ==
    /\ pc = "done"
    /\ \E i \in 1..Len(items) :
           InWpasDirectory(items[i]) /\ Len(items[i].source_files) >= 2

\* C5: every record of the SAT Daily Stories section that lies below a
\* top-level directory of the Stories root, whatever its kind, has that
\* directory's name as its batch.
C5_BatchIsTopLevelDirectory ==
    (pc = "done" /\ source_dir = SatRoot) =>
        \A i \in 1..Len(items) :
            items[i].content_section = <<"stories">> =>
                LET dirs == IF items[i].is_folder_item
                            THEN {Parent(items[i].source_path)}
                            ELSE {Parent(p) : p \in Range(items[i].source_files)}
                    tops == {RelParts(d, StoriesRoot)[1] :
                                d \in {x \in dirs : Len(x) > Len(StoriesRoot)}}
                IN  ((\A d \in dirs : Len(d) > Len(StoriesRoot)) /\ Cardinality(tops) = 1)
                        => items[i].batch \in tops

---------------------------------------------------------------------------
(* Properties of the accumulator (SpecAcc).                                *)

\* the calls made so far that staged a file of the identifier key
CallsOf(key) == {n \in 1..Len(calls) : calls[n].parsed.shortcode = key}

\* of these, the calls that supplied an MO slot, and a resharer
MoCallsOf(key) == {n \in CallsOf(key) : calls[n].mo_column # << >>}

ResharerCallsOf(key) == {n \in CallsOf(key) : calls[n].resharer_username # << >>}

\* C6: a group's username and date are those of the first file staged
\* under its identifier.
C6_FirstFileFixesOwnerAndDate ==
    \A i \in 1..Len(story_groups) :
        LET first == calls[SetMin(CallsOf(story_groups[i].key))]
        IN  /\ story_groups[i].username = first.parsed.username
            /\ story_groups[i].date_str = first.parsed.date_str

\* C7: a staging changes the display name of an existing group only if
\* the group's display name is empty and the incoming one is not.
C7_NameChangesOnlyFromEmpty ==
    [][\A i \in 1..Len(story_groups) :
           story_groups'[i].full_name # story_groups[i].full_name =>
               /\ story_groups[i].full_name = << >>
               /\ pending # << >>
               /\ Head(pending).parsed.full_name # << >>]_vars

\* C8: the display name of a group is non-empty if a file staged so far
\* under its identifier carried a non-empty display name.
C8_NameStaysNonEmpty ==
    \A i \in 1..Len(story_groups) :
        (\E n \in CallsOf(story_groups[i].key) : calls[n].parsed.full_name # << >>)
            => story_groups[i].full_name # << >>

\* a file without display name staged after one with a display name, under
\* the same identifier
C8_EmptyNameStagedAfterName ==
    \E n, m \in 1..Len(calls) :
        /\ n < m
        /\ calls[n].parsed.shortcode = calls[m].parsed.shortcode
        /\ calls[n].parsed.full_name # << >>
        /\ calls[m].parsed.full_name = << >>

\* the path context of a staged file's directory
ContextOfCall(c) ==
    IF IsUnder(Parent(c.file_path), c.root_dir)
    THEN parse_sat_daily_stories_context(RelParts(Parent(c.file_path), c.root_dir))
    ELSE << >>

\* C9: batch, dropdown column, dropdown value and WPAS code of a group's
\* context are those of the directory of the first file staged under its
\* identifier.
C9_FirstDirectoryFixesContext ==
    \A i \in 1..Len(story_groups) :
        LET first == calls[SetMin(CallsOf(story_groups[i].key))]
        IN  \A k \in {"batch", "dropdown_column", "dropdown_value", "wpas_code"} :
                Get(story_groups[i].ctx, k) = Get(ContextOfCall(first), k)

\* two files of one identifier staged from directories of different
\* batch, category and WPAS code
C9_StagedFromAnotherDirectory ==
    \E n, m \in 1..Len(calls) :
        /\ n < m
        /\ calls[n].parsed.shortcode = calls[m].parsed.shortcode
        /\ \A k \in {"batch", "dropdown_column", "dropdown_value", "wpas_code"} :
               Get(ContextOfCall(calls[n]), k) # Get(ContextOfCall(calls[m]), k)

\* C10: the MO slot and the resharer of a group are those of the last
\* staging that supplied them, and so are those of the group's record
\* after the conversion.
C10_LastOverrideWins ==
    \A i \in 1..Len(story_groups) :
        LET g == story_groups[i]
            mo == calls[SetMax(MoCallsOf(g.key))]
            re == calls[SetMax(ResharerCallsOf(g.key))]
        IN  /\ MoCallsOf(g.key) # {} =>
                   /\ Get(g.ctx, "mo_column") = mo.mo_column
                   /\ Get(g.ctx, "mo_value") = mo.mo_value
                   /\ pc = "done" => items[i][mo.mo_column[1]] = mo.mo_value
            /\ ResharerCallsOf(g.key) # {} =>
                   /\ Get(g.ctx, "resharer_username") = re.resharer_username
                   /\ Get(g.ctx, "resharer_name") = re.resharer_name
                   /\ pc = "done" =>
                          /\ items[i].resharer_username = re.resharer_username
                          /\ items[i].resharer_name = re.resharer_name

\* a converted group into which two stagings supplied different resharers
\* and different MO values
C10_OverriddenAndConverted ==
    /\ pc = "done"
    /\ \E n, m \in 1..Len(calls) :
           /\ n < m
           /\ calls[n].parsed.shortcode = calls[m].parsed.shortcode
           /\ calls[n].resharer_username # << >>
           /\ calls[m].resharer_username # << >>
           /\ calls[n].resharer_username # calls[m].resharer_username
           /\ calls[n].mo_column # << >>
           /\ calls[m].mo_column # << >>
           /\ calls[n].mo_value # calls[m].mo_value

\* of the calls that staged a file of the identifier key, those of role raw
RawCallsOf(key) == {n \in CallsOf(key) : calls[n].parsed.suffix = <<"raw">>}

\* C11: the media type of a group is that of the last file of role raw
\* staged under its identifier, Video for mp4 and Image for jpg, jpeg and
\* png, and it is empty while no such file was staged: the staging of a
\* screencapture or a screenshot leaves it as it was.
C11_MediaTypeFromRawOnly ==
    \A i \in 1..Len(story_groups) :
        LET raws == RawCallsOf(story_groups[i].key)
            ext == calls[SetMax(raws)].parsed.ext
        IN  story_groups[i].media_type =
                IF raws = {} THEN << >>
                ELSE IF ext = <<"mp4">> THEN <<"Video">>
                ELSE IF ext \in {<<"jpg">>, <<"jpeg">>, <<"png">>} THEN <<"Image">>
                ELSE << >>

\* a screencapture or screenshot staged after a raw image of the same
\* identifier
C11_OtherRoleStagedAfterRaw ==
    \E n, m \in 1..Len(calls) :
        /\ n < m
        /\ calls[n].parsed.shortcode = calls[m].parsed.shortcode
        /\ calls[n].parsed.suffix = <<"raw">>
        /\ calls[n].parsed.ext = <<"jpg">>
        /\ calls[m].parsed.suffix # <<"raw">>

\* the identifiers of the calls cs, each once, in the order of its first call
RECURSIVE KeysInOrder(_)
KeysInOrder(cs) ==
    IF cs = << >> THEN << >>
    ELSE LET front == KeysInOrder(SubSeq(cs, 1, Len(cs) - 1))
             key == cs[Len(cs)].parsed.shortcode
         IN  IF key \in Range(front) THEN front ELSE Append(front, key)

\* the files the calls staged under the identifier key, in the order of
\* the calls
FilesStagedUnder(key) ==
    LET of == SelectSeq(calls, LAMBDA c : c.parsed.shortcode = key)
    IN  [j \in 1..Len(of) |-> of[j].file_path]

\* C12: the conversion of a section's groups gives one Story record for
\* each identifier staged, in the order in which the identifiers were
\* first staged, and the source_files of a record are the files staged
\* under its identifier, in the order of staging, whatever their
\* directories.
C12_OneRecordPerIdentifier ==
    pc = "done" =>
        LET keys == KeysInOrder(calls)
        IN  /\ Len(items) = Len(keys)
            /\ \A i \in 1..Len(keys) :
                   /\ items[i].shortcode = keys[i]
                   /\ items[i].post_type = <<"Story">>
                   /\ items[i].source_files = FilesStagedUnder(keys[i])

\* a conversion after files of two identifiers were staged in turn, the
\* third from another directory than the first
C12_TwoIdentifiersInTurn ==
    /\ pc = "done"
    /\ Len(calls) = 3
    /\ calls[1].parsed.shortcode # calls[2].parsed.shortcode
    /\ calls[3].parsed.shortcode = calls[1].parsed.shortcode
    /\ Parent(calls[3].file_path) # Parent(calls[1].file_path)

\* the record r has neither its source path nor a source file in the
\* subtree of the directory d
OutsideOf(r, d) ==
    /\ ~IsUnder(r.source_path, d)
    /\ \A k \in 1..Len(r.source_files) : ~IsUnder(r.source_files[k], d)

\* C13: when one directory cannot be listed, scan_folder returns, and
\* what it returns holds every record of the scan of the readable tree
\* that lies outside the subtree of that directory.
C13_DeniedDirectoryOnlyOmits ==
    pc # "ready" =>
        /\ pc = "done"
        /\ \A d \in fs.denied :
               \A r \in Range(scan_folder([fs EXCEPT !.denied = {}], source_dir).items) :
                   OutsideOf(r, d) => r \in Range(items)

\* the post folders of the tree
PostFolders == {p \in fs.dirs : parse_post_folder(Name(p)).ok}

\* the record the scan returned for the folder p has, as owner handle,
\* content id and posted date, what the folder's name says
FolderNameRecord(p) ==
    \E i \in 1..Len(items) :
        /\ items[i].source_path = p
        /\ items[i].username = parse_post_folder(Name(p)).username
        /\ items[i].shortcode = parse_post_folder(Name(p)).shortcode
        /\ items[i].post_date = format_date(parse_post_folder(Name(p)).date_str)

\* C14: whatever the metadata file of a post folder holds, the scan
\* returns, and a folder whose metadata file is not a JSON object has a
\* record with the fields of its name.
C14_MetadataNeverAborts ==
    pc # "ready" =>
        /\ pc = "done"
        /\ \A p \in PostFolders :
               (\E m \in DOMAIN fs.json : Parent(m) = p /\ fs.json[m].kind # "object")
                   => FolderNameRecord(p)

\* the fields of the metadata object of the post folder p, no field when
\* the folder has no metadata file or the file holds no object
MetadataOf(p) ==
    IF \E m \in DOMAIN fs.json : Parent(m) = p /\ fs.json[m].kind = "object"
    THEN fs.json[CHOOSE m \in DOMAIN fs.json : Parent(m) = p].data
    ELSE << >>

\* the collaborators a folder name gives: what follows _collab_, its
\* underscores read as separators
CollabSuffix(name) ==
    LET at == {k \in 1..(Len(name) - 3) : SubSeq(name, k, k + 2) = <<"_", "collab", "_">>}
    IN  IF at = {} THEN << >>
        ELSE ReplaceUnderscore(SubSeq(name, SetMin(at) + 3, Len(name)))

HiddenPath(p) ==
    \E k \in (Len(source_dir) + 1)..Len(p) : Hidden(p[k])

\* the tree without its hidden files and directories and what they hold
VisibleTree ==
    [fs EXCEPT !.dirs = {p \in fs.dirs : ~HiddenPath(p)},
               !.files = {p \in fs.files : ~HiddenPath(p)}]

\* C16: the scan returns what it returns for the tree without the files
\* and directories whose names start with a dot: none of them is staged,
\* is a source file, is a record, or decides whether a story-collection
\* folder is passed through.
C16_HiddenNamesNeverContribute ==
    pc # "ready" =>
        /\ pc = "done"
        /\ items = scan_folder(VisibleTree, source_dir).items

\* the named story folders and stories-TXT folders of the tree
StoryCollectionFolders ==
    {d \in fs.dirs : Name(d) \in {NamedFolder, TxtFolder}}

\* the direct child files of d that are story-shaped
DirectStoryFiles(d) ==
    {p \in fs.files : Parent(p) = d /\ parse_story_filename(Name(p)).ok}

\* the folder records of the directory d
FolderRecordsOf(d) ==
    {i \in 1..Len(items) : items[i].is_folder_item /\ items[i].source_path = d}

\* the files that were staged: the source files of the Story records
StagedFiles ==
    UNION {Range(items[i].source_files) :
           i \in {k \in 1..Len(items) : items[k].post_type = <<"Story">>}}

\* C17: a named story folder or stories-TXT folder with a story-shaped
\* direct child file has no folder record and its direct story files are
\* staged; one without has exactly one Story Collection folder record and
\* none of its files is staged.
C17_PassThroughOrFolderRecord ==
    pc # "ready" =>
        /\ pc = "done"
        /\ \A d \in StoryCollectionFolders :
               IF DirectStoryFiles(d) # {}
               THEN /\ FolderRecordsOf(d) = {}
                    /\ DirectStoryFiles(d) \subseteq StagedFiles
               ELSE /\ Cardinality(FolderRecordsOf(d)) = 1
                    /\ \A i \in FolderRecordsOf(d) :
                           items[i].post_type = <<"Story", " ", "Collection">>
                    /\ \A p \in StagedFiles : ~IsUnder(p, d)

\* a name of the shape of content: it starts with IG Stories, IG Reshare,
\* IG Profile or IG Regular Comment, or it is the name of a story file
ContentShaped(name) ==
    \/ \E head \in {<<"IG", " ", "Stories">>, <<"IG", " ", "Reshare">>,
                     <<"IG", " ", "Profile">>,
                     <<"IG", " ", "Regular", " ", "Comment">>} :
           Len(name) >= Len(head) /\ SubSeq(name, 1, Len(head)) = head
    \/ parse_story_filename(name).ok

\* the dropdown value of the names before position k (counted from 0)
ValueBefore(k) == parse_sat_daily_stories_context(SubSeq(arg, 1, k)).dropdown_value

RECURSIVE Refined(_, _)
Refined(v, names) ==
    IF names = << >> THEN v
    ELSE Refined(v \o <<" ", "/", " ">> \o Head(names), Tail(names))

\* C19: when no name at position 3 or deeper is content-shaped, the
\* dropdown value is the position-2 value followed by " / name" for each
\* of those positions in order.
C19_EveryDeeperNameRefines ==
    (pc = "done" /\ Len(arg) >= 3
       /\ \A k \in 4..Len(arg) : ~ContentShaped(arg[k]))
    => ret.dropdown_value = Refined(ValueBefore(3), SubSeq(arg, 4, Len(arg)))

\* C20: no folder name is matched by more than one of the recognizers of
\* post, profile, comment-thread, named-story, stories-TXT and reshare
\* folders.
C20_AtMostOneRecognizer ==
    pc = "done" => Cardinality(ret) <= 1

\* a date in the form YYYY-MM-DD
CalendarDate(s) ==
    /\ Len(s) = 5
    /\ s[1] \in Digits4 /\ s[2] = "-" /\ s[3] \in Digits2
    /\ s[4] = "-" /\ s[5] \in Digits2

\* C21: every record the scan returns, of every kind, has its post_date
\* in the form YYYY-MM-DD.
C21_PostDateIsCalendarDate ==
    pc = "done" => \A i \in 1..Len(items) : CalendarDate(items[i].post_date)

\* the records of a scan without the archive timestamp, the source files
\* of each as a set
Membership(records) ==
    [i \in 1..Len(records) |->
        [records[i] EXCEPT !.timestamp = << >>,
                           !.source_files = Range(records[i].source_files)]]

\* C22: the scan returns the same records, the timestamp and the order
\* of the source files of a record aside, in whichever order the
\* operating system lists the entries of the directories.
C22_SameRecordsInEitherOrder ==
    pc # "ready" =>
        /\ pc = "done"
        /\ Membership(items) =
               Membership(scan_folder([fs EXCEPT !.desc = ~fs.desc], source_dir).items)

\* the destination C23 describes for the record r
DestinationOf(r) ==
    LET subpath == IF r.post_type = <<"Story">>
                   THEN r.username \o <<"_", "story", "_">> \o r.shortcode
                   ELSE Name(r.source_path)
    IN  <<"~", "/", "Downloads", "/", "Instagram", " ", "Archive", "/">>
        \o r.username \o <<"/">> \o subpath

\* C23: the destination of every record is the archive root, then the
\* username stored in the record, then <username>_story_<shortcode> for
\* a group of story files and the name of the folder or file as it
\* stands for every other record.
C23_DestinationUnderUsername ==
    pc = "done" =>
        \A i \in 1..Len(items) :
            /\ items[i].username # << >>
            /\ items[i].destination_path = DestinationOf(items[i])

\* C23 witness: a post record whose username comes from its metadata
\* beside a story group, a single-file or another folder record
C23_MetadataUsernameInDestination ==
    /\ pc = "done"
    /\ \E i, j \in 1..Len(items) :
           /\ items[i].post_type = <<"Post">>
           /\ items[i].username = <<"bob">>
           /\ Name(items[i].source_path) = PostFolder
           /\ items[j].post_type # <<"Post">>

\* where the traversal first met the record r: the folder of a folder
\* record, the first file staged of a group of story files
FirstMet(r) == IF r.is_folder_item THEN r.source_path ELSE r.source_files[1]

\* the place of the section of the record r in a SAT Daily scan
SectionRank(r) ==
    CASE r.content_section = <<"stories">> -> 1
      [] r.content_section = <<"pv">> -> 2
      [] OTHER -> 3

\* p lies in a sibling directory that sorts before the one q lies in
InEarlierSibling(p, q) ==
    \E k \in 1..Min2(Len(p), Len(q)) :
        /\ SubSeq(p, 1, k - 1) = SubSeq(q, 1, k - 1)
        /\ SubSeq(p, 1, k) \in fs.dirs
        /\ SubSeq(q, 1, k) \in fs.dirs
        /\ StrLess(p[k], q[k])

\* C24: a SAT Daily scan returns the Stories records, then the P&V
\* records, then the Additional/MO records, and within a section a
\* record first met in an earlier sibling directory precedes one first
\* met in a later sibling.
C24_TraversalOrder ==
    (pc = "done" /\ source_dir = SatRoot) =>
        \A i, j \in 1..Len(items) :
            i < j =>
                /\ SectionRank(items[i]) <= SectionRank(items[j])
                /\ SectionRank(items[i]) = SectionRank(items[j])
                       => ~InEarlierSibling(FirstMet(items[j]), FirstMet(items[i]))

\* C25: the record of a profile, comment-thread, named-story or
\* stories-TXT folder has the date and the handle of the folder name,
\* and the display name as its real_name whenever the folder name has
\* one.
C25_FolderNameFields ==
    pc = "done" =>
        \A i \in 1..Len(items) :
            Name(items[i].source_path) \in DisplayFolders =>
                /\ items[i].post_date = <<"2024", "-", "01", "-", "01">>
                /\ items[i].username = <<"alice">>
                /\ Contains(Name(items[i].source_path),
                            <<" ", "-", " ", "Alice", " ", "-", " ">>)
                       => items[i].real_name = <<"Alice">>

\* C26: the record of a post folder without metadata, named
\* alice_IG_POST_20240101_abc with or without the paired marker or a
\* _collab_ suffix after it, has the shortcode abc.
C26_ShortcodeWithoutSuffixes ==
    pc = "done" =>
        \A i \in 1..Len(items) :
            (/\ items[i].post_type = <<"Post">>
             /\ Name(items[i].source_path) \in {PostFolder, PairedFolder, CollabFolder}
             /\ ~\E m \in DOMAIN fs.json : IsUnder(m, items[i].source_path))
            => items[i].shortcode = <<"abc">>

\* C27: no category column of a Story record holds the name of a
\* story-collection folder its files were staged from, at whatever depth
\* below the Stories directory the folder sits.
C27_FolderNameNotInDropdown ==
    pc = "done" =>
        \A i \in 1..Len(items) :
            items[i].post_type = <<"Story">> =>
                \A k \in 1..Len(items[i].source_files) :
                    \A col \in CategoryFields :
                        ~Contains(items[i][col], Name(Parent(items[i].source_files[k])))

\* the records of the directory d
RecordsOf(d) == {i \in 1..Len(items) : items[i].source_path = d}

\* C28: a folder of the Manual section named IG Reshare - <date> -
\* <name> - <handle> yields one record, whose resharer_username and
\* resharer_name are the handle and the name and whose sheet_categories
\* is Reshare.
C28_ManualReshareRecord ==
    pc = "done" =>
        \A d \in fs.dirs :
            (Parent(d) = Append(source_dir, <<"Manual">>) /\ Name(d) \in {ReshareAlice, ReshareBob})
            => /\ Cardinality(RecordsOf(d)) = 1
               /\ \A i \in RecordsOf(d) :
                      /\ items[i].resharer_username =
                             IF Name(d) = ReshareAlice THEN <<"alice">> ELSE <<"bob">>
                      /\ items[i].resharer_name =
                             IF Name(d) = ReshareAlice THEN <<"Alice">> ELSE <<"Bob">>
                      /\ items[i].sheet_categories = <<"Reshare">>

---------------------------------------------------------------------------
(* Properties of the mover (SpecMove).                                     *)

\* the name _move_folder falls back to when the destination is taken
DupOf(dest) == Join(Parent(dest), Name(dest) \o <<"_", "dup">>)

\* the tree that was at src on disk a is at dst on disk b, and nothing
\* is left at src
TreeAt(a, b, src, dst) ==
    /\ ~exists(b, src)
    /\ \A p \in a.dirs : IsUnder(p, src) => (dst \o RelParts(p, src)) \in b.dirs
    /\ \A p \in DOMAIN a.files :
           IsUnder(p, src) =>
               /\ (dst \o RelParts(p, src)) \in DOMAIN b.files
               /\ b.files[dst \o RelParts(p, src)] = a.files[p]

\* what was on disk a outside src is on disk b as it was
Untouched(a, b, src) ==
    /\ \A p \in a.dirs : ~IsUnder(p, src) => p \in b.dirs
    /\ \A p \in DOMAIN a.files :
           ~IsUnder(p, src) => p \in DOMAIN b.files /\ b.files[p] = a.files[p]

\* the turn of the loop of move_items that hands a folder on the disk to
\* _move_folder
MovesFolder ==
    /\ pc = "moving"
    /\ pending # << >>
    /\ pending' = Tail(pending)
    /\ ~arg.dry_run
    /\ Head(pending).is_folder_item
    /\ Head(pending).source_path \in disk.dirs

\* C29: _move_folder leaves the folder exactly at the destination when
\* nothing is there, and exactly at <destination>_dup when the destination
\* is taken, also when <destination>_dup is there already; what the disk
\* held before is left as it was.
C29_FolderAtDestinationOrDup ==
    [][MovesFolder =>
           \E src \in {Head(pending).source_path},
              dest \in {PathOfStr(Head(pending).destination_path)} :
               /\ TreeAt(disk, disk', src,
                         IF exists(disk, dest) THEN DupOf(dest) ELSE dest)
               /\ Untouched(disk, disk', src)]_vars

\* the item has been moved: a folder is gone from its source and its
\* files are below the user's directory of the archive; each file of a
\* story group is gone from its source and is in the destination folder
FullyMoved(item) ==
    \E dest \in {PathOfStr(item.destination_path)} :
        IF item.is_folder_item
        THEN /\ ~exists(disk, item.source_path)
             /\ \A p \in fs.files :
                    IsUnder(p, item.source_path) =>
                        \E q \in DOMAIN disk.files :
                            IsUnder(q, Parent(dest)) /\ disk.files[q] = p
        ELSE \A k \in 1..Len(item.source_files) :
                 /\ ~exists(disk, item.source_files[k])
                 /\ Join(dest, Name(item.source_files[k])) \in DOMAIN disk.files
                 /\ disk.files[Join(dest, Name(item.source_files[k]))] =
                        item.source_files[k]

\* C30: after move_items without dry_run, every item counted as a success
\* has been moved, no file of it left at its source, and success and
\* errors add up to the number of items.
C30_SuccessMeansMoved ==
    pc = "done" =>
        /\ ret.success + ret.errors = Len(items)
        /\ ~arg.dry_run => \A i \in 1..Len(items) : moved[i] => FullyMoved(items[i])

=============================================================================
